---- MODULE Spec2Model ----
(***************************************************************************)
(* Model of the live trading loop: TradingStrategy (src/trade.py), the     *)
(* trade executor DEXTrader.execute_trade (src/trader.py) and the price     *)
(* helpers it uses (src/utils/price_utils.py).                              *)
(*                                                                          *)
(* Amounts are integers counted in units of 0.000001 token, so the          *)
(* "stored amount is invalid" threshold 0.000001 of the source is 1.        *)
(* Prices are whole numbers; a price that is not a finite number (NaN) is   *)
(* marked by Finite = FALSE.  Time is counted in seconds.  The native asset *)
(* is counted in gwei (9 decimals) and gas prices in gwei per unit of gas,  *)
(* so that to_wei(x, 'gwei') is x.  The addresses "WETH" and "TOK" stand    *)
(* for well-formed 0x-prefixed contract addresses.                          *)
(***************************************************************************)
EXTENDS Integers, Sequences, FiniteSets, TLC

\* ---------------------------------------------------------------- bounds
MaxTrades == 2
MaxTime == 10
MaxBlock == 6
MaxAmount == 3
MaxInflight == 1

\* ------------------------------------------------------ program constants
MinTradeInterval == 5
Epsilon == 1

\* ------------------------------------------------------- optional values
None == [ok |-> FALSE, v |-> 0]
Some(x) == [ok |-> TRUE, v |-> x]

Min2(a, b) == IF a <= b THEN a ELSE b

\* A value the decoder left as a string, with its characters.
Text(s) == [ok |-> TRUE, v |-> 0, str |-> s]

IsText(x) == "str" \in DOMAIN x

\* ------------------------------------------------------------ feed events
\* Protocol names are sequences of characters, so that lower-casing and the
\* substring test of the executor choice are computed.
NameUniswapV2 == <<"u", "n", "i", "s", "w", "a", "p", "_", "v", "2">>
NameUniswapV3 == <<"u", "n", "i", "s", "w", "a", "p", "_", "v", "3">>
NameSushi == <<"s", "u", "s", "h", "i">>

Entry(s, p, m) ==
    [SlippageBasisPoints |-> Some(s), Price |-> p, Finite |-> TRUE,
     MaxAmountIn |-> Some(m)]

\* An entry whose slippage the decoder could not read as a number.
TextEntry(s, p, m) ==
    [SlippageBasisPoints |-> Text(s), Price |-> p, Finite |-> TRUE,
     MaxAmountIn |-> Some(m)]

NaNEntry(s, m) ==
    [SlippageBasisPoints |-> Some(s), Price |-> 0, Finite |-> FALSE,
     MaxAmountIn |-> Some(m)]

\* A well-formed V2 event: A is the wrapped native asset, B a token.  The
\* AtoB bucket is not sorted by slippage.
EvGood ==
    [HasPool |-> TRUE, HasPriceTable |-> TRUE,
     HasCurrencyA |-> TRUE, HasCurrencyB |-> TRUE,
     AddressA |-> "WETH", AddressB |-> "TOK",
     DecimalsA |-> 9, DecimalsB |-> 6,
     ProtocolName |-> NameUniswapV2,
     TxGasPrice |-> None, BaseFee |-> None,
     AmountCurrencyA |-> Some(4), AmountCurrencyB |-> Some(2),
     AtoBPrices |-> <<Entry(50, 2, 3), Entry(10, 1, 2)>>,
     BtoAPrices |-> <<Entry(10, 1, 1)>>]

\* A V3 event whose BtoA price is zero and whose AtoB price is not a number.
EvOdd ==
    [HasPool |-> TRUE, HasPriceTable |-> TRUE,
     HasCurrencyA |-> TRUE, HasCurrencyB |-> TRUE,
     AddressA |-> "TOK", AddressB |-> "WETH",
     DecimalsA |-> 6, DecimalsB |-> 9,
     ProtocolName |-> NameUniswapV3,
     TxGasPrice |-> None, BaseFee |-> None,
     AmountCurrencyA |-> Some(1), AmountCurrencyB |-> Some(3),
     AtoBPrices |-> <<NaNEntry(10, 1)>>,
     BtoAPrices |-> <<Entry(10, 0, 3)>>]

\* The price table is present but holds no bucket.
EvNoTable ==
    [EvGood EXCEPT !.AtoBPrices = <<>>, !.BtoAPrices = <<>>]

\* No liquidity on side B.
EvNoLiquidity ==
    [EvGood EXCEPT !.AmountCurrencyB = Some(0)]

\* A protocol no executor handles; side B offers the larger share of its
\* liquidity.
EvOtherProtocol ==
    [EvGood EXCEPT !.ProtocolName = NameSushi, !.AmountCurrencyB = Some(1)]

\* The message carries no Pool for this event.
EvNoPool ==
    [EvGood EXCEPT !.HasPool = FALSE]

\* Both buckets hold an unreadable slippage next to a number.
EvMixed ==
    [EvGood EXCEPT !.AtoBPrices = <<Entry(50, 2, 3), TextEntry(<<"n", "a">>, 1, 2)>>,
                   !.BtoAPrices = <<TextEntry(<<"n", "a">>, 1, 1), Entry(10, 1, 1)>>]

\* The decoder could not read the amount of side A and left the string, and
\* the BtoA bucket is empty.
EvUnreadable ==
    [EvGood EXCEPT !.AmountCurrencyA = Text(<<"0", "x">>),
                   !.BtoAPrices = <<>>]

Events ==
    <<EvGood, EvOdd, EvNoTable, EvNoLiquidity, EvOtherProtocol, EvNoPool,
      EvMixed, EvUnreadable>>

EventIds == DOMAIN Events

\* ------------------------------------------------------ price_utils.py
Prices(pool_event, direction) ==
    IF direction = "AtoB" THEN pool_event.AtoBPrices ELSE pool_event.BtoAPrices

RECURSIVE Insert(_, _)
Insert(x, sorted) ==
    IF sorted = <<>> THEN <<x>>
    ELSE IF x <= Head(sorted) THEN <<x>> \o sorted
    ELSE <<Head(sorted)>> \o Insert(x, Tail(sorted))

RECURSIVE SortAscending(_)
SortAscending(xs) ==
    IF xs = <<>> THEN <<>> ELSE Insert(Head(xs), SortAscending(Tail(xs)))

\* The slippage values of the bucket that are numbers, in bucket order.
RECURSIVE DefinedSlippages(_)
DefinedSlippages(prices) ==
    IF prices = <<>> THEN <<>>
    ELSE (IF Head(prices).SlippageBasisPoints.ok
             /\ ~IsText(Head(prices).SlippageBasisPoints)
          THEN <<Head(prices).SlippageBasisPoints.v>> ELSE <<>>)
         \o DefinedSlippages(Tail(prices))

\* The first defined slippage of the bucket, whatever the later ones are.
get_best_slippage_bps_first(pool_event, direction) ==
    LET slippages == DefinedSlippages(Prices(pool_event, direction))
    IN  IF slippages = <<>> THEN None ELSE Some(slippages[1])

\* The loop of get_best_slippage_bps over the slippages from place i on: best
\* is replaced by every slippage below it.
RECURSIVE LowestFrom(_, _, _)
LowestFrom(slippages, i, best_slippage) ==
    IF i > Len(slippages) THEN best_slippage
    ELSE LowestFrom(slippages, i + 1,
                    IF ~best_slippage.ok \/ slippages[i] < best_slippage.v
                    THEN Some(slippages[i]) ELSE best_slippage)

get_best_slippage_bps(pool_event, direction) ==
    LowestFrom(DefinedSlippages(Prices(pool_event, direction)), 1, None)

\* slippages.sort() raises TypeError when the bucket holds a slippage the
\* decoder left as a string next to a number.  (No event of the model has a
\* bucket whose slippages are all strings.)
SortRaises(prices) ==
    /\ \E i \in DOMAIN prices : IsText(prices[i].SlippageBasisPoints)
    /\ DefinedSlippages(prices) # <<>>

\* The element one place below the one the source takes.
MedianIndexBelow(n) == IF n \div 2 = 0 THEN 1 ELSE n \div 2

\* The lower of the two middle places for an even count.
MedianIndexLower(n) == (n + 1) \div 2

\* median_index = len(slippages) // 2, counted from 1.
MedianIndex(n) == (n \div 2) + 1

get_median_slippage_bps(pool_event, direction) ==
    LET slippages == SortAscending(DefinedSlippages(Prices(pool_event, direction)))
    IN  IF slippages = <<>> THEN None
        ELSE Some(slippages[MedianIndex(Len(slippages))])

\* A lookup that ignores the target and takes the first entry.
get_price_for_slippage_first(pool_event, direction, slippage_bps) ==
    IF Prices(pool_event, direction) # <<>> THEN 1 ELSE 0

\* The index of the entry get_price_for_slippage returns, 0 for no entry.
get_price_for_slippage(pool_event, direction, slippage_bps) ==
    LET prices == Prices(pool_event, direction)
        exact == {i \in DOMAIN prices :
                     /\ prices[i].SlippageBasisPoints.ok
                     /\ ~IsText(prices[i].SlippageBasisPoints)
                     /\ prices[i].SlippageBasisPoints.v = slippage_bps}
    IN  IF exact # {} THEN CHOOSE i \in exact : \A j \in exact : i <= j
        ELSE IF prices # <<>> THEN 1
        ELSE 0

\* int(s) and int(s, 16) of a string of digits; -1 stands for ValueError.
HexDigits ==
    <<"0", "1", "2", "3", "4", "5", "6", "7", "8", "9",
      "a", "b", "c", "d", "e", "f">>

UpperHexDigits == <<"A", "B", "C", "D", "E", "F">>

DigitValue(c, base) ==
    IF \E i \in 1..base : HexDigits[i] = c
    THEN (CHOOSE i \in 1..base : HexDigits[i] = c) - 1
    ELSE IF base = 16 /\ \E i \in 1..6 : UpperHexDigits[i] = c
         THEN (CHOOSE i \in 1..6 : UpperHexDigits[i] = c) + 9
         ELSE -1

RECURSIVE ParseDigits(_, _, _)
ParseDigits(s, base, acc) ==
    IF s = <<>> THEN acc
    ELSE IF DigitValue(Head(s), base) < 0 THEN -1
    ELSE ParseDigits(Tail(s), base, acc * base + DigitValue(Head(s), base))

ParseInt(s, base) == IF s = <<>> THEN -1 ELSE ParseDigits(s, base, 0)

StartsWith0x(s) == Len(s) >= 2 /\ s[1] = "0" /\ s[2] = "x"

\* A coercion that reads every string as plain decimal.
AmountNumberDecimalOnly(amount) ==
    IF ~IsText(amount) THEN Some(amount.v)
    ELSE IF ParseInt(amount.str, 10) < 0 THEN None
         ELSE Some(ParseInt(amount.str, 10))

\* The number _compare_liquidity_amounts compares for an amount that is
\* present; None: the coercion of a string raised ValueError.
AmountNumber(amount) ==
    IF ~IsText(amount) THEN Some(amount.v)
    ELSE LET n == IF StartsWith0x(amount.str)
                  THEN ParseInt(SubSeq(amount.str, 3, Len(amount.str)), 16)
                  ELSE ParseInt(amount.str, 10)
         IN  IF n < 0 THEN None ELSE Some(n)

\* The raw comparison with the preference on ties turned round.
CompareNumbersTiesBtoA(a, b) == IF a > b THEN "AtoB" ELSE "BtoA"

CompareNumbers(a, b) == IF a >= b THEN "AtoB" ELSE "BtoA"

_compare_liquidity_amounts(pool_event) ==
    IF ~pool_event.AmountCurrencyA.ok \/ ~pool_event.AmountCurrencyB.ok
    THEN "Unknown"
    ELSE LET amount_a_num == AmountNumber(pool_event.AmountCurrencyA)
             amount_b_num == AmountNumber(pool_event.AmountCurrencyB)
         IN  IF ~amount_a_num.ok \/ ~amount_b_num.ok THEN "Unknown"
             ELSE CompareNumbers(amount_a_num.v, amount_b_num.v)

LiquidityMissing(pool_event) ==
    ~pool_event.AmountCurrencyA.ok /\ ~pool_event.AmountCurrencyB.ok

PriceTableEmpty(pool_event) ==
    pool_event.AtoBPrices = <<>> /\ pool_event.BtoAPrices = <<>>

\* The liquidity amount is a number (neither absent nor a string).
IsNumber(x) == x.ok /\ ~IsText(x)

\* The ratio comparison with the preference on ties turned round.
CompareRatiosTiesBtoA(atob_max, amount_a, btoa_max, amount_b) ==
    IF atob_max * amount_b > btoa_max * amount_a THEN "AtoB" ELSE "BtoA"

\* atob_max / amount_a >= btoa_max / amount_b for positive amounts, by cross
\* multiplication.
CompareRatios(atob_max, amount_a, btoa_max, amount_b) ==
    IF atob_max * amount_b >= btoa_max * amount_a THEN "AtoB" ELSE "BtoA"

\* The slippage level the resolver looks a direction up at.
ChosenSlippage(pool_event, direction, slippage_bps) ==
    IF slippage_bps.ok THEN slippage_bps
    ELSE get_median_slippage_bps(pool_event, direction)

\* atob_max and btoa_max: MaxAmountIn of the entry found at that level.
MaxAmountInAt(pool_event, direction, slippage_bps) ==
    LET level == ChosenSlippage(pool_event, direction, slippage_bps)
        i == get_price_for_slippage(pool_event, direction, level.v)
    IN  IF ~level.ok \/ i = 0 THEN None
        ELSE Prices(pool_event, direction)[i].MaxAmountIn

\* The resolver raises when a median it asks for cannot be sorted.
get_best_direction_raises(pool_event, slippage_bps) ==
    /\ ~LiquidityMissing(pool_event)
    /\ ~PriceTableEmpty(pool_event)
    /\ ~slippage_bps.ok
    /\ \/ SortRaises(pool_event.AtoBPrices)
       \/ SortRaises(pool_event.BtoAPrices)

\* The paths with the branch for zero liquidity that the source has
\* commented out: an amount that is not positive leads to the absolute
\* comparison of MaxAmountIn.
DirectionPathZeroIsAbsolute(pool_event, slippage_bps) ==
    IF LiquidityMissing(pool_event) \/ PriceTableEmpty(pool_event) THEN "missing"
    ELSE
    LET atob_slippage == IF slippage_bps.ok THEN slippage_bps
                         ELSE get_median_slippage_bps(pool_event, "AtoB")
        btoa_slippage == IF slippage_bps.ok THEN slippage_bps
                         ELSE get_median_slippage_bps(pool_event, "BtoA")
    IN  IF ~atob_slippage.ok \/ ~btoa_slippage.ok THEN "raw"
        ELSE
        LET ia == get_price_for_slippage(pool_event, "AtoB", atob_slippage.v)
            ib == get_price_for_slippage(pool_event, "BtoA", btoa_slippage.v)
            atob_max == IF ia = 0 THEN None ELSE pool_event.AtoBPrices[ia].MaxAmountIn
            btoa_max == IF ib = 0 THEN None ELSE pool_event.BtoAPrices[ib].MaxAmountIn
            a == pool_event.AmountCurrencyA
            b == pool_event.AmountCurrencyB
        IN  IF IsNumber(atob_max) /\ IsNumber(btoa_max)
            THEN IF ~IsNumber(a) THEN "absolute"
                 ELSE IF a.v <= 0 THEN "absolute"
                 ELSE IF ~IsNumber(b) THEN "absolute"
                 ELSE IF b.v <= 0 THEN "absolute"
                 ELSE "ratio"
            ELSE "raw"

\* The path get_best_direction_by_liquidity decides on.  slippage_bps is the
\* optional fixed slippage level (None: the median of each direction).
DirectionPath(pool_event, slippage_bps) ==
    IF LiquidityMissing(pool_event) \/ PriceTableEmpty(pool_event) THEN "missing"
    ELSE
    LET atob_slippage == IF slippage_bps.ok THEN slippage_bps
                         ELSE get_median_slippage_bps(pool_event, "AtoB")
        btoa_slippage == IF slippage_bps.ok THEN slippage_bps
                         ELSE get_median_slippage_bps(pool_event, "BtoA")
    IN  IF ~atob_slippage.ok \/ ~btoa_slippage.ok THEN "raw"
        ELSE
        LET ia == get_price_for_slippage(pool_event, "AtoB", atob_slippage.v)
            ib == get_price_for_slippage(pool_event, "BtoA", btoa_slippage.v)
            atob_max == IF ia = 0 THEN None ELSE pool_event.AtoBPrices[ia].MaxAmountIn
            btoa_max == IF ib = 0 THEN None ELSE pool_event.BtoAPrices[ib].MaxAmountIn
            a == pool_event.AmountCurrencyA
            b == pool_event.AmountCurrencyB
        IN  IF IsNumber(atob_max) /\ IsNumber(btoa_max)
            THEN IF ~IsNumber(a) THEN "absolute"
                 ELSE IF a.v <= 0 THEN "raw"
                 ELSE IF ~IsNumber(b) THEN "absolute"
                 ELSE IF b.v <= 0 THEN "raw"
                 ELSE "ratio"
            ELSE "raw"

get_best_direction_by_liquidity(pool_event, slippage_bps) ==
    LET path == DirectionPath(pool_event, slippage_bps)
        atob_slippage == IF slippage_bps.ok THEN slippage_bps
                         ELSE get_median_slippage_bps(pool_event, "AtoB")
        btoa_slippage == IF slippage_bps.ok THEN slippage_bps
                         ELSE get_median_slippage_bps(pool_event, "BtoA")
        ia == get_price_for_slippage(pool_event, "AtoB", atob_slippage.v)
        ib == get_price_for_slippage(pool_event, "BtoA", btoa_slippage.v)
        atob_max == pool_event.AtoBPrices[ia].MaxAmountIn.v
        btoa_max == pool_event.BtoAPrices[ib].MaxAmountIn.v
    IN  CASE path = "missing" -> "Unknown"
          [] path = "raw" -> _compare_liquidity_amounts(pool_event)
          [] path = "absolute" ->
                IF atob_max >= btoa_max THEN "AtoB" ELSE "BtoA"
          [] path = "ratio" ->
                CompareRatios(atob_max, pool_event.AmountCurrencyA.v,
                              btoa_max, pool_event.AmountCurrencyB.v)


\* ------------------------------------------------------------ the state
VARIABLES
    enabled,            \* TradingStrategy.enabled
    trade_amount,       \* TradingStrategy.trade_amount
    trade_direction,    \* TradingStrategy.trade_direction ("None" for dynamic)
    close_blocks,       \* TradingStrategy.close_blocks
    max_trades,         \* run_trading's max_trades (0 for None)
    last_trade_time,    \* TradingStrategy.last_trade_time
    total_trades,       \* TradingStrategy.total_trades
    successful_trades,  \* TradingStrategy.successful_trades
    failed_trades,      \* TradingStrategy.failed_trades
    open_positions,     \* TradingStrategy.open_positions
    pc,                 \* where run_trading's loop stands
    now,                \* time.time()
    chainBlock,         \* the chain's block height (w3.eth.block_number)
    inflight,           \* swaps broadcast by this wallet and not yet mined
    close_swaps,        \* history: per position, close swaps broadcast (saturates at 2)
    last,               \* history: what the last step of the loop did
    call,               \* one call of DEXTrader.execute_trade, step by step
    calc                \* one call of a price_utils helper: arguments and result

config == <<enabled, trade_amount, trade_direction, close_blocks, max_trades>>
counters == <<total_trades, successful_trades, failed_trades>>
strategy == <<last_trade_time, total_trades, successful_trades, failed_trades,
              open_positions>>
chain == <<chainBlock, inflight>>
vars == <<enabled, trade_amount, trade_direction, close_blocks, max_trades,
          last_trade_time, total_trades, successful_trades, failed_trades,
          open_positions, pc, now, chainBlock, inflight, close_swaps, last,
          call, calc>>

DefaultSlippageBps == 50

\* --------------------------------------------- trader.py: execute_trade
UpperCase ==
    <<"A", "B", "C", "D", "E", "F", "G", "H", "I", "J", "K", "L", "M",
      "N", "O", "P", "Q", "R", "S", "T", "U", "V", "W", "X", "Y", "Z">>

LowerCase ==
    <<"a", "b", "c", "d", "e", "f", "g", "h", "i", "j", "k", "l", "m",
      "n", "o", "p", "q", "r", "s", "t", "u", "v", "w", "x", "y", "z">>

\* The characters protocol names are written with.
Characters ==
    {UpperCase[i] : i \in DOMAIN UpperCase}
    \cup {LowerCase[i] : i \in DOMAIN LowerCase}
    \cup {"_", "-", "2", "3"}

ToLower ==
    [c \in Characters |->
        IF \E i \in DOMAIN UpperCase : UpperCase[i] = c
        THEN LowerCase[CHOOSE i \in DOMAIN UpperCase : UpperCase[i] = c]
        ELSE c]

\* str.lower() on a sequence of characters.
lower(name) == [k \in DOMAIN name |-> ToLower[name[k]]]

\* Python's "sub in name".
Contains(name, sub) ==
    \E i \in 0..(Len(name) - Len(sub)) : SubSeq(name, i + 1, i + Len(sub)) = sub

V2Names == {NameUniswapV2, <<"v", "2">>}
V3Names == {NameUniswapV3, <<"v", "3">>}

\* The executor execute_trade hands the swap to: "v2", "v3" or "none".
SelectExecutorV3First(ProtocolName) ==
    LET protocol == lower(ProtocolName)
    IN  IF \E id \in V3Names : Contains(protocol, id) THEN "v3"
        ELSE IF \E id \in V2Names : Contains(protocol, id) THEN "v2"
        ELSE "none"

SelectExecutor(ProtocolName) ==
    LET protocol == lower(ProtocolName)
    IN  IF \E id \in V2Names : Contains(protocol, id) THEN "v2"
        ELSE IF \E id \in V3Names : Contains(protocol, id) THEN "v3"
        ELSE "none"

\* The SmartContract texts of a currency: "" for a missing field, "0x" for the
\* bare prefix, "weth" for a text without the 0x prefix, "0xZZ" for a prefixed
\* text that is not an address.
Prefixed == {"0x", "0xZZ", "WETH", "TOK"}
WellFormed == {"WETH", "TOK"}

get_token_address_unchecked(SmartContract) == SmartContract

\* The resolved address, "" for None.
get_token_address(SmartContract) ==
    IF SmartContract = "" \/ SmartContract = "0x" THEN ""
    ELSE IF SmartContract \in Prefixed
         THEN (IF SmartContract \in WellFormed THEN SmartContract ELSE "")
         ELSE ""

NoTrade ==
    [status |-> "none", broadcast |-> FALSE, block_number |-> 0,
     amount_in |-> 0, amount_out |-> 0, price |-> 0, slippage_bps |-> 0]

Raised == [NoTrade EXCEPT !.status = "raised"]

PendingResult == [NoTrade EXCEPT !.status = "pending", !.broadcast = TRUE]

FailedResult == [NoTrade EXCEPT !.status = "failed", !.broadcast = TRUE]

\* The balance deltas the reconciler can observe (None: a balance query failed).
Deltas == {None} \cup {Some(d) : d \in -1..MaxAmount}

calculate_actual_amount_out_any_positive(delta, expected_out) ==
    IF ~delta.ok THEN expected_out
    ELSE IF delta.v <= 0 THEN expected_out
    ELSE delta.v

calculate_actual_amount_out(delta, expected_out) ==
    IF ~delta.ok THEN expected_out
    ELSE IF delta.v <= 0 THEN expected_out
    ELSE IF 2 * delta.v < expected_out THEN expected_out
    ELSE delta.v

\* The balance change calculate_actual_amount_out observes: the balance at the
\* receipt's block minus the balance one block earlier, plus the gas cost when
\* the output is the native asset (None: a balance query raised).
ObservedDelta(eth_out, balance_after, balance_before, gas_cost) ==
    IF ~balance_after.ok \/ ~balance_before.ok THEN None
    ELSE Some(balance_after.v - balance_before.v
              + (IF eth_out THEN gas_cost ELSE 0))

\* Whether the receipt of a mined transaction carries its block number.
ReceiptBlocks(block) == {block, 0}

\* The results execute_trade can return for this call, given the chain's height
\* and the number of this wallet's swaps that are still unmined.
execute_trade(pool_event, direction, amount_in, slippage_bps, block, unmined) ==
    LET token_in_address ==
            get_token_address(IF direction = "AtoB" THEN pool_event.AddressA
                              ELSE pool_event.AddressB)
        token_out_address ==
            get_token_address(IF direction = "AtoB" THEN pool_event.AddressB
                              ELSE pool_event.AddressA)
        i == get_price_for_slippage(pool_event, direction, slippage_bps)
        price_entry == Prices(pool_event, direction)[i]
        expected_out == amount_in * price_entry.Price
    IN  IF ~pool_event.HasPool THEN {NoTrade}
        ELSE IF ~pool_event.HasCurrencyA \/ ~pool_event.HasCurrencyB THEN {NoTrade}
        ELSE IF token_in_address = "" \/ token_out_address = "" THEN {NoTrade}
        ELSE IF i = 0 THEN {NoTrade}
        ELSE IF ~price_entry.Finite THEN {Raised}
        ELSE IF SelectExecutor(pool_event.ProtocolName) = "none" THEN {NoTrade}
        ELSE {NoTrade}
             \cup (IF unmined < MaxInflight THEN {PendingResult} ELSE {})
             \cup (IF block < MaxBlock
                   THEN {FailedResult}
                        \cup {[status |-> "confirmed", broadcast |-> TRUE,
                               block_number |-> b,
                               amount_in |-> amount_in,
                               amount_out |->
                                   calculate_actual_amount_out(d, expected_out),
                               price |-> price_entry.Price,
                               slippage_bps |-> slippage_bps] :
                              b \in ReceiptBlocks(block + 1), d \in Deltas}
                   ELSE {})

\* The chain after execute_trade returned r: a receipt means a block was mined,
\* a receipt timeout leaves the swap unmined.
BlockAfter(r, block) ==
    IF r.status \in {"confirmed", "failed"} THEN block + 1 ELSE block

UnminedAfter(r, unmined) ==
    IF r.status = "pending" THEN unmined + 1 ELSE unmined

\* ------------------------------------------------- utils/gas_utils.py
FallbackGasPrice == 30
SwapGasLimit == 300000

extract_gas_from_stream(pool_event) ==
    IF pool_event.TxGasPrice.ok THEN pool_event.TxGasPrice
    ELSE IF pool_event.BaseFee.ok THEN pool_event.BaseFee
    ELSE None

\* The gas policy without the cap on the feed price.
get_gas_price_uncapped(stream_gas_price_wei, gas_price_gwei, max_gas_price_gwei, rpc) ==
    IF stream_gas_price_wei.ok
    THEN [price |-> stream_gas_price_wei.v, tier |-> "stream"]
    ELSE IF gas_price_gwei.ok /\ gas_price_gwei.v # 0
         THEN [price |-> gas_price_gwei.v, tier |-> "fixed"]
         ELSE IF rpc.ok
              THEN [price |-> Min2(rpc.v, max_gas_price_gwei), tier |-> "rpc"]
              ELSE [price |-> FallbackGasPrice, tier |-> "fallback"]

\* GasManager.get_gas_price: the price and the tier it came from.  rpc is the
\* answer of w3.eth.gas_price (None: the query raised); it is looked at only
\* in the tiers "rpc" and "fallback".
get_gas_price(stream_gas_price_wei, gas_price_gwei, max_gas_price_gwei, rpc) ==
    IF stream_gas_price_wei.ok
    THEN [price |-> IF stream_gas_price_wei.v > max_gas_price_gwei
                    THEN max_gas_price_gwei ELSE stream_gas_price_wei.v,
          tier |-> "stream"]
    ELSE IF gas_price_gwei.ok /\ gas_price_gwei.v # 0
         THEN [price |-> gas_price_gwei.v, tier |-> "fixed"]
         ELSE IF rpc.ok
              THEN [price |-> IF rpc.v > max_gas_price_gwei
                              THEN max_gas_price_gwei ELSE rpc.v,
                    tier |-> "rpc"]
              ELSE [price |-> FallbackGasPrice, tier |-> "fallback"]

\* A policy that asks the chain client on every call.
ConsultsChainAlways(stream_gas_price_wei, gas_price_gwei) == TRUE

\* Whether the policy asks the chain client for the network price.
ConsultsChain(stream_gas_price_wei, gas_price_gwei) ==
    ~stream_gas_price_wei.ok /\ ~(gas_price_gwei.ok /\ gas_price_gwei.v # 0)

\* ---------------------------------------------- utils/balance_utils.py
check_eth_balance(amount_in, balance_wei, gas_price) ==
    balance_wei >= amount_in + gas_price * SwapGasLimit

\* ------------------------------------------- utils/conversion_utils.py
UnitDecimals == 6

RECURSIVE Pow10(_)
Pow10(n) == IF n = 0 THEN 1 ELSE 10 * Pow10(n - 1)

\* amount is counted in 10^-UnitDecimals of a token.
convert_amount_to_smallest_unit(amount, decimals) ==
    IF decimals >= UnitDecimals THEN amount * Pow10(decimals - UnitDecimals)
    ELSE amount \div Pow10(UnitDecimals - decimals)

\* ------------------------------------------------------ decimal.Decimal
\* The conversions compute with decimal.Decimal.  A Decimal is modelled by
\* its coefficient, a sequence of decimal digits with the lowest digit first
\* and no leading zero (so zero is the empty sequence), and its exponent:
\* the value is coef * 10^exp.  The default context keeps DecimalPrecision
\* significant digits in the result of an operation and rounds to even.
DecimalPrecision == 28

Reverse(s) == [i \in 1..Len(s) |-> s[Len(s) + 1 - i]]

Zeros(n) == [i \in 1..n |-> 0]

RECURSIVE Trim(_)
Trim(ds) ==
    IF ds = <<>> THEN <<>>
    ELSE IF ds[Len(ds)] = 0 THEN Trim(SubSeq(ds, 1, Len(ds) - 1))
    ELSE ds

RECURSIVE AddDigits(_, _, _)
AddDigits(a, b, carry) ==
    IF a = <<>> /\ b = <<>> THEN (IF carry = 0 THEN <<>> ELSE <<carry>>)
    ELSE LET x == IF a = <<>> THEN 0 ELSE Head(a)
             y == IF b = <<>> THEN 0 ELSE Head(b)
             t == x + y + carry
         IN  <<t % 10>> \o AddDigits(IF a = <<>> THEN <<>> ELSE Tail(a),
                                     IF b = <<>> THEN <<>> ELSE Tail(b),
                                     t \div 10)

\* The sum of the products a[i] * b[j] of one column, i + j = k + 1.
RECURSIVE ColumnSum(_, _, _, _)
ColumnSum(a, b, k, i) ==
    IF i > Len(a) \/ i > k THEN 0
    ELSE (IF k + 1 - i <= Len(b) THEN a[i] * b[k + 1 - i] ELSE 0)
         + ColumnSum(a, b, k, i + 1)

RECURSIVE Carry(_, _, _)
Carry(columns, i, carry) ==
    IF i > Len(columns) THEN <<>>
    ELSE LET t == columns[i] + carry
         IN  <<t % 10>> \o Carry(columns, i + 1, t \div 10)

MulDigits(a, b) ==
    Trim(Carry([k \in 1..(Len(a) + Len(b) + 1) |-> ColumnSum(a, b, k, 1)],
               1, 0))

RECURSIVE LessDigits(_, _)
LessDigits(a, b) ==
    IF Len(a) # Len(b) THEN Len(a) < Len(b)
    ELSE IF a = <<>> THEN FALSE
    ELSE IF a[Len(a)] # b[Len(b)] THEN a[Len(a)] < b[Len(b)]
    ELSE LessDigits(SubSeq(a, 1, Len(a) - 1), SubSeq(b, 1, Len(b) - 1))

RECURSIVE Digits(_)
Digits(n) == IF n = 0 THEN <<>> ELSE <<n % 10>> \o Digits(n \div 10)

\* Decimal("..."): the digits as they are written, highest first.
Dec(digits, exp) == [coef |-> Trim(Reverse(digits)), exp |-> exp]

\* The context's rounding of a result to DecimalPrecision digits
\* (ROUND_HALF_EVEN).
Round(x) ==
    LET n == Len(x.coef)
        k == n - DecimalPrecision
    IN  IF k <= 0 THEN x
        ELSE LET low  == Trim(SubSeq(x.coef, 1, k))
                 high == SubSeq(x.coef, k + 1, n)
                 half == Zeros(k - 1) \o <<5>>
                 up   == \/ LessDigits(half, low)
                         \/ low = half /\ high[1] % 2 = 1
                 sum  == IF up THEN AddDigits(high, <<1>>, 0) ELSE high
             IN  IF Len(sum) > DecimalPrecision
                 THEN [coef |-> Tail(sum), exp |-> x.exp + k + 1]
                 ELSE [coef |-> sum, exp |-> x.exp + k]

\* x * y
DecimalMul(x, y) ==
    Round([coef |-> MulDigits(x.coef, y.coef), exp |-> x.exp + y.exp])

\* Decimal(10) ** decimals
DecimalPow10(decimals) == [coef |-> <<1>>, exp |-> decimals]

\* x / (Decimal(10) ** decimals)
DecimalDivPow10(x, decimals) ==
    Round([coef |-> x.coef, exp |-> x.exp - decimals])

\* The value without its trailing zeros, so that equal values are equal.
RECURSIVE Normalize(_)
Normalize(x) ==
    IF x.coef = <<>> THEN [coef |-> <<>>, exp |-> 0]
    ELSE IF Head(x.coef) = 0
         THEN Normalize([coef |-> Tail(x.coef), exp |-> x.exp + 1])
    ELSE x

\* A conversion that rounds to the nearest integer instead of truncating.
IntRounded(x) ==
    IF x.exp >= 0 THEN Trim(Zeros(x.exp) \o x.coef)
    ELSE IF -x.exp > Len(x.coef) THEN <<>>
    ELSE LET kept == SubSeq(x.coef, 1 - x.exp, Len(x.coef))
         IN  IF x.coef[-x.exp] >= 5 THEN AddDigits(kept, <<1>>, 0) ELSE kept

\* int(x): the digits after the decimal point are dropped.
IntOf(x) ==
    IF x.exp >= 0 THEN Trim(Zeros(x.exp) \o x.coef)
    ELSE IF -x.exp >= Len(x.coef) THEN <<>>
    ELSE SubSeq(x.coef, 1 - x.exp, Len(x.coef))

\* float(x).  A double carries every decimal of at most FloatDigits
\* significant digits; a longer one becomes the nearest double, which is
\* not computed here.
FloatDigits == 15

FloatOf(x) ==
    IF Len(Normalize(x).coef) <= FloatDigits
    THEN [ok |-> TRUE, v |-> Normalize(x)]
    ELSE [ok |-> FALSE, v |-> Normalize(x)]

\* convert_amount_to_smallest_unit(amount, decimals), amount given by the
\* decimal that str(amount) writes.
to_smallest_unit(amount, decimals) ==
    IntOf(DecimalMul(amount, DecimalPow10(decimals)))

\* convert_amount_from_smallest_unit(amount_wei, decimals)
convert_amount_from_smallest_unit(amount_wei, decimals) ==
    FloatOf(DecimalDivPow10([coef |-> amount_wei, exp |-> 0], decimals))

\* 1 - slippage_bps / 10000, for slippage_bps in 0..10000: both the
\* quotient and the difference have at most five digits and are exact.
slippage_multiplier(slippage_bps) ==
    [coef |-> Digits(10000 - slippage_bps), exp |-> -4]

\* calculate_amount_out_min(amount_in, price, decimals_out, slippage_bps)
calculate_amount_out_min(amount_in, price, decimals_out, slippage_bps) ==
    LET expected_out   == DecimalMul(amount_in, price)
        amount_out_min == DecimalMul(expected_out,
                                     slippage_multiplier(slippage_bps))
    IN  IntOf(DecimalMul(amount_out_min, DecimalPow10(decimals_out)))

\* --------------------------------------------- trade.py: TradingStrategy
\* "not amount" is false: the amount is present and is neither the number
\* zero nor the empty string.
Truthy(amount) ==
    /\ amount.ok
    /\ IF IsText(amount) THEN amount.str # <<>> ELSE amount.v # 0

OpenCount(positions) ==
    Cardinality({i \in DOMAIN positions : positions[i].status = "open"})

\* A gate that every retained position blocks, whatever its status.
should_trade_blocked_by_retained(pool_event) ==
    /\ enabled
    /\ Len(open_positions) = 0
    /\ now - last_trade_time >= MinTradeInterval
    /\ ~PriceTableEmpty(pool_event)
    /\ Truthy(pool_event.AmountCurrencyA)
    /\ Truthy(pool_event.AmountCurrencyB)

should_trade_no_open_check(pool_event) ==
    /\ enabled
    /\ now - last_trade_time >= MinTradeInterval
    /\ ~PriceTableEmpty(pool_event)
    /\ Truthy(pool_event.AmountCurrencyA)
    /\ Truthy(pool_event.AmountCurrencyB)

should_trade_no_interval_check(pool_event) ==
    /\ enabled
    /\ OpenCount(open_positions) = 0
    /\ ~PriceTableEmpty(pool_event)
    /\ Truthy(pool_event.AmountCurrencyA)
    /\ Truthy(pool_event.AmountCurrencyB)

should_trade(pool_event) ==
    /\ enabled
    /\ OpenCount(open_positions) = 0
    /\ now - last_trade_time >= MinTradeInterval
    /\ ~PriceTableEmpty(pool_event)
    /\ Truthy(pool_event.AmountCurrencyA)
    /\ Truthy(pool_event.AmountCurrencyB)

\* A direction chosen by the resolver whenever it names one, whatever the
\* configuration.
StrategyDirectionResolverFirst(pool_event) ==
    IF get_best_direction_by_liquidity(pool_event, None) # "Unknown"
    THEN get_best_direction_by_liquidity(pool_event, None)
    ELSE IF trade_direction = "None" THEN "AtoB" ELSE trade_direction

\* What execute_strategy has got from get_best_direction_by_liquidity:
\* with a fixed direction the resolver is not called.
ResolverResult(pool_event) ==
    IF trade_direction = "None"
    THEN get_best_direction_by_liquidity(pool_event, None)
    ELSE "not_consulted"

StrategyDirection(pool_event) ==
    IF trade_direction = "None"
    THEN (IF get_best_direction_by_liquidity(pool_event, None) = "Unknown"
          THEN "AtoB"
          ELSE get_best_direction_by_liquidity(pool_event, None))
    ELSE trade_direction

\* A strategy that always trades at the configured default.
StrategySlippageDefault(pool_event, direction) == DefaultSlippageBps

StrategySlippage(pool_event, direction) ==
    IF get_median_slippage_bps(pool_event, direction).ok
    THEN get_median_slippage_bps(pool_event, direction).v
    ELSE DefaultSlippageBps

\* The direction or slippage resolution of execute_strategy raises: both
\* run before the try block around execute_trade.
ResolutionRaises(pool_event) ==
    IF trade_direction = "None"
    THEN \/ get_best_direction_raises(pool_event, None)
         \/ SortRaises(Prices(pool_event, StrategyDirection(pool_event)))
    ELSE SortRaises(Prices(pool_event, trade_direction))

\* A close in the direction of the opening.
OppositeIsSame(direction) == direction

Opposite(direction) == IF direction = "AtoB" THEN "BtoA" ELSE "AtoB"

RegistersPositionAlsoPending(result) ==
    result.status \in {"confirmed", "pending"}

\* execute_strategy stores a position for this result.
RegistersPosition(result) ==
    result.status = "confirmed" /\ result.block_number # 0

StoredAmountAsReported(result) == result.amount_out

\* The amount stored in the position for a confirmed result.
StoredAmount(result) ==
    IF result.amount_out <= Epsilon
    THEN (IF result.price > 0 THEN result.amount_in * result.price
          ELSE trade_amount)
    ELSE result.amount_out

NewPosition(e, direction, result, id) ==
    [id |-> id,
     open_block |-> result.block_number,
     direction |-> direction,
     opposite_direction |-> Opposite(direction),
     pool_event |-> e,
     amount_out |-> StoredAmount(result),
     slippage_bps |-> result.slippage_bps,
     status |-> "open"]


\* The balances get_token_balance can return (None: no address, or the query failed).
get_token_balance(token_address) ==
    IF token_address = "" THEN {None}
    ELSE {None} \cup {Some(b) : b \in 0..MaxAmount}

ResolveCloseAmountStoredOnly(stored_amount_out, actual_balance) ==
    IF stored_amount_out <= Epsilon
    THEN (IF ~actual_balance.ok \/ actual_balance.v <= 0 THEN None
          ELSE Some(actual_balance.v))
    ELSE Some(stored_amount_out)

ResolveCloseAmountNoFallback(stored_amount_out, actual_balance) ==
    IF stored_amount_out <= Epsilon THEN None
    ELSE IF ~actual_balance.ok THEN Some(stored_amount_out)
    ELSE IF Min2(stored_amount_out, actual_balance.v) <= 0 THEN None
    ELSE Some(Min2(stored_amount_out, actual_balance.v))

\* The amount check_and_close_positions closes with; None when it marks the
\* position close_failed without calling the executor.
ResolveCloseAmount(stored_amount_out, actual_balance) ==
    LET amount_out ==
            IF stored_amount_out <= Epsilon
            THEN (IF ~actual_balance.ok \/ actual_balance.v <= 0 THEN None
                  ELSE Some(actual_balance.v))
            ELSE IF ~actual_balance.ok THEN Some(stored_amount_out)
            ELSE Some(Min2(stored_amount_out, actual_balance.v))
    IN  IF ~amount_out.ok THEN None
        ELSE IF amount_out.v <= 0 THEN None
        ELSE amount_out

CloseStatusNoResultStaysOpen(result) ==
    CASE result.status = "confirmed" -> "closed"
      [] result.status = "failed" -> "close_failed"
      [] result.status = "raised" -> "close_error"
      [] OTHER -> "open"

\* The position's status after execute_trade returned (or raised) in a close.
CloseStatus(result) ==
    CASE result.status = "confirmed" -> "closed"
      [] result.status = "failed" -> "close_failed"
      [] result.status = "none" -> "close_failed"
      [] result.status = "raised" -> "close_error"
      [] OTHER -> "open"

IsDueStrictlyLater(position, current_block) ==
    /\ position.status = "open"
    /\ current_block - position.open_block > close_blocks

IsDueOnlyAtExactBlock(position, current_block) ==
    /\ position.status = "open"
    /\ current_block - position.open_block = close_blocks

IsDue(position, current_block) ==
    /\ position.status = "open"
    /\ current_block - position.open_block >= close_blocks

Retained(position) == position.status \in {"open", "close_failed", "close_error"}

PruneClosedKeepsAll(positions) == positions

PruneClosed(positions) == SelectSeq(positions, Retained)

Saturate(n) == IF n >= 2 THEN 2 ELSE n

\* A close computed from another event than the one the position stores.
ClosingEventOther(position) == (position.pool_event % Len(Events)) + 1

\* position.get('pool_event'): the event the close is computed from.
ClosingEvent(position) == position.pool_event

\* The currency whose balance the close reads and which it swaps back.
TokenToSwap(opposite_direction) ==
    IF opposite_direction = "BtoA" THEN "CurrencyB" ELSE "CurrencyA"

\* token_in_info and token_out_info of execute_trade.
CurrencyIn(direction) ==
    IF direction = "AtoB" THEN "CurrencyA" ELSE "CurrencyB"

CurrencyOut(direction) ==
    IF direction = "AtoB" THEN "CurrencyB" ELSE "CurrencyA"

CurrencyAddress(pool_event, currency) ==
    IF currency = "CurrencyA" THEN pool_event.AddressA ELSE pool_event.AddressB

\* One pass of the closing loop over position i.  st holds what the tick has
\* changed so far: the ledger, the chain and the history.
CloseOne(i, st) ==
    LET position == st.positions[i]
        pool_event == Events[ClosingEvent(position)]
        token_to_swap == CurrencyAddress(
                             pool_event, TokenToSwap(position.opposite_direction))
        attempt(live, amount, called, result, status) ==
            [id |-> position.id, open_block |-> position.open_block,
             stored |-> position.amount_out, live |-> live,
             called |-> called, amount |-> amount, result |-> result.status,
             broadcast |-> result.broadcast, unmined |-> st.unmined,
             status_after |-> status,
             event |-> ClosingEvent(position),
             opened |-> position.direction,
             direction |-> position.opposite_direction,
             slippage_bps |-> position.slippage_bps,
             token_to_swap |-> TokenToSwap(position.opposite_direction)]
    IN  UNION {
          LET amount_out == ResolveCloseAmount(position.amount_out, actual_balance)
          IN  IF ~amount_out.ok
              THEN {[st EXCEPT
                       !.positions[i].status = "close_failed",
                       !.attempts = @ \cup
                           {attempt(actual_balance, 0, FALSE, NoTrade, "close_failed")}]}
              ELSE {[positions |->
                        [st.positions EXCEPT ![i].status = CloseStatus(result)],
                     block |-> BlockAfter(result, st.block),
                     unmined |-> UnminedAfter(result, st.unmined),
                     swaps |->
                        [st.swaps EXCEPT ![position.id] =
                            IF result.broadcast THEN Saturate(@ + 1) ELSE @],
                     attempts |-> st.attempts \cup
                        {attempt(actual_balance, amount_out.v, TRUE, result,
                                 CloseStatus(result))}] :
                    result \in execute_trade(pool_event, position.opposite_direction,
                                             amount_out.v, position.slippage_bps,
                                             st.block, st.unmined)}
          : actual_balance \in get_token_balance(token_to_swap)}

\* A closing loop that an exception ends: the positions after the one whose
\* close raised are not looked at.
RECURSIVE CloseFromStopsAtError(_, _, _)
CloseFromStopsAtError(i, due, st) ==
    IF i > Len(st.positions) THEN {st}
    ELSE IF i \notin due THEN CloseFromStopsAtError(i + 1, due, st)
    ELSE UNION {IF next.positions[i].status = "close_error" THEN {next}
                ELSE CloseFromStopsAtError(i + 1, due, next) :
                next \in CloseOne(i, st)}

\* The closing loop from position i on; due are the positions_to_close.
RECURSIVE CloseFrom(_, _, _)
CloseFrom(i, due, st) ==
    IF i > Len(st.positions) THEN {st}
    ELSE IF i \notin due THEN CloseFrom(i + 1, due, st)
    ELSE UNION {CloseFrom(i + 1, due, next) : next \in CloseOne(i, st)}

NoResult == NoTrade

Idle ==
    [kind |-> "idle", event |-> 0, called |-> FALSE, result |-> NoResult,
     unmined |-> 0, current_block |-> 0, attempts |-> {},
     direction |-> "", resolver |-> ""]

check_and_close_positions(current_block) ==
    IF ~enabled
    THEN /\ UNCHANGED <<open_positions, chainBlock, inflight, close_swaps>>
         /\ last' = [Idle EXCEPT !.kind = "tick", !.current_block = current_block]
    ELSE LET due == {i \in DOMAIN open_positions :
                        IsDue(open_positions[i], current_block)}
             start == [positions |-> open_positions, block |-> chainBlock,
                       unmined |-> inflight, swaps |-> close_swaps,
                       attempts |-> {}]
         IN  \E end \in CloseFrom(1, due, start) :
                /\ open_positions' = PruneClosed(end.positions)
                /\ chainBlock' = end.block
                /\ inflight' = end.unmined
                /\ close_swaps' = end.swaps
                /\ last' = [Idle EXCEPT !.kind = "tick",
                                        !.current_block = current_block,
                                        !.attempts = end.attempts]

execute_strategy(e) ==
    LET pool_event == Events[e]
        direction == StrategyDirection(pool_event)
        median_slippage == StrategySlippage(pool_event, direction)
    IN  IF ~should_trade(pool_event)
        THEN /\ UNCHANGED <<strategy, chain, close_swaps>>
             /\ last' = [Idle EXCEPT !.kind = "strategy", !.event = e]
        ELSE IF ResolutionRaises(pool_event)
        THEN /\ UNCHANGED <<strategy, chain, close_swaps>>
             /\ last' = [Idle EXCEPT !.kind = "strategy_error", !.event = e]
        ELSE \E result \in execute_trade(pool_event, direction, trade_amount,
                                          median_slippage, chainBlock, inflight) :
                /\ total_trades' = total_trades + 1
                /\ last_trade_time' = now
                /\ successful_trades' =
                       IF result.status = "confirmed" THEN successful_trades + 1
                       ELSE successful_trades
                /\ failed_trades' =
                       IF result.status \in {"failed", "none", "raised"}
                       THEN failed_trades + 1 ELSE failed_trades
                /\ open_positions' =
                       IF RegistersPosition(result)
                       THEN Append(open_positions,
                                   NewPosition(e, direction, result, total_trades + 1))
                       ELSE open_positions
                /\ chainBlock' = BlockAfter(result, chainBlock)
                /\ inflight' = UnminedAfter(result, inflight)
                /\ UNCHANGED close_swaps
                /\ last' = [Idle EXCEPT !.kind = "strategy", !.event = e,
                                        !.called = TRUE, !.result = result,
                                        !.unmined = inflight,
                                        !.direction = direction,
                                        !.resolver = ResolverResult(pool_event)]

\* No helper call is being followed.
NoCalc == [fn |-> "none"]

\* No call of execute_trade is being followed.
NoCall ==
    [pc |-> "idle", event |-> 0, direction |-> "AtoB", amount_in |-> 0,
     amount_in_smallest |-> 0, expected_out |-> 0, executor |-> "none",
     stream_gas_price_wei |-> None, gas_price_gwei |-> None,
     max_gas_price_gwei |-> 0,
     gas_price |-> 0, rpc_queries |-> 0, rpc_failures |-> 0,
     check_gas_price |-> 0, balance_wei |-> None, token_balance |-> None,
     allowance |-> None, approval |-> "none",
     sent |-> <<>>, tx_hash |-> FALSE, failed_step |-> "", raised |-> FALSE,
     price |-> 0, slippage_bps |-> 0,
     receipt |-> "none", balance_after |-> None, balance_before |-> None,
     gas_cost |-> 0, result |-> NoTrade]

\* ------------------------------------------------- trade.py: run_trading
\* The configurations run_trading is started with: dynamic direction, a fixed
\* direction with a trade limit, a zero trade amount, and trading disabled.
Configs ==
    {[enabled |-> TRUE, trade_amount |-> 2, trade_direction |-> "None",
      close_blocks |-> 3, max_trades |-> 0],
     [enabled |-> TRUE, trade_amount |-> 1, trade_direction |-> "BtoA",
      close_blocks |-> 2, max_trades |-> MaxTrades],
     [enabled |-> TRUE, trade_amount |-> 0, trade_direction |-> "BtoA",
      close_blocks |-> 2, max_trades |-> 0],
     [enabled |-> FALSE, trade_amount |-> 2, trade_direction |-> "None",
      close_blocks |-> 3, max_trades |-> 0]}

Init ==
    /\ \E c \in Configs :
          /\ enabled = c.enabled
          /\ trade_amount = c.trade_amount
          /\ trade_direction = c.trade_direction
          /\ close_blocks = c.close_blocks
          /\ max_trades = c.max_trades
    /\ last_trade_time = 0
    /\ total_trades = 0
    /\ successful_trades = 0
    /\ failed_trades = 0
    /\ open_positions = <<>>
    /\ pc = "poll"
    /\ now = MinTradeInterval
    /\ chainBlock = 1
    /\ inflight = 0
    /\ close_swaps = [id \in 1..MaxTrades |-> 0]
    /\ last = Idle
    /\ call = NoCall
    /\ calc = NoCalc

\* stream.poll returned no message.
PollNone ==
    /\ pc = "poll"
    /\ pc' = "tick_idle"
    /\ last' = Idle
    /\ UNCHANGED <<config, calc, call, strategy, now, chain, close_swaps>>

\* stream.poll returned a decoded message; its pool events are drawn one by
\* one as process_event's loop reaches them.
PollMessage ==
    /\ pc = "poll"
    /\ pc' = "tick_data"
    /\ last' = Idle
    /\ UNCHANGED <<config, calc, call, strategy, now, chain, close_swaps>>

AfterTick ==
    CASE pc = "tick_idle" -> "poll"
      [] pc = "tick_data" -> "process"
      [] OTHER -> "events"

\* The block height query failed: position closing is skipped.
TickSkipped ==
    /\ pc \in {"tick_idle", "tick_data", "process"}
    /\ pc' = AfterTick
    /\ last' = Idle
    /\ UNCHANGED <<config, calc, call, strategy, now, chain, close_swaps>>

\* The loop's, or process_event's, call of check_and_close_positions.
Tick ==
    /\ pc \in {"tick_idle", "tick_data", "process"}
    /\ check_and_close_positions(chainBlock)
    /\ pc' = AfterTick
    /\ UNCHANGED <<config, calc, call, last_trade_time, counters, now>>

MaxTradesReached(total) == max_trades # 0 /\ total >= max_trades

\* process_event skips a pool event without a price table or a pool.
SkipEvent ==
    /\ pc = "events"
    /\ \E e \in EventIds :
          /\ ~Events[e].HasPriceTable \/ ~Events[e].HasPool
          /\ last' = [Idle EXCEPT !.kind = "skip", !.event = e]
    /\ UNCHANGED <<config, calc, call, strategy, pc, now, chain, close_swaps>>

\* An exception that leaves the loop over the events.
PropagatesOutOfLoop == "crashed"

\* execute_strategy raised: process_event's handler goes on with the next
\* pool event of the message.
CaughtInEventLoop == "events"

\* process_event hands the next pool event to the strategy.
StrategyStep ==
    /\ pc = "events"
    /\ total_trades < MaxTrades
    /\ \E e \in EventIds :
          /\ Events[e].HasPriceTable /\ Events[e].HasPool
          /\ execute_strategy(e)
    /\ pc' = IF last'.kind = "strategy_error" THEN CaughtInEventLoop
             ELSE IF MaxTradesReached(total_trades') THEN "done" ELSE pc
    /\ UNCHANGED <<config, calc, call, now>>

\* The message is not shaped as process_event expects: its outer handler
\* returns and the loop polls again.
MalformedMessage ==
    /\ pc = "events"
    /\ pc' = "poll"
    /\ last' = [Idle EXCEPT !.kind = "malformed"]
    /\ UNCHANGED <<config, calc, call, strategy, now, chain, close_swaps>>

\* The message has no further pool event: process_event returns and the loop
\* polls again.
EventsDone ==
    /\ pc = "events"
    /\ pc' = "poll"
    /\ last' = Idle
    /\ UNCHANGED <<config, calc, call, strategy, now, chain, close_swaps>>

\* ------------------------------------------------------- the environment
\* Time passes, blocks are mined and unmined swaps resolve while the loop
\* waits in stream.poll; a receipt obtained inside a handler mines a block there.
Clock ==
    /\ pc = "poll"
    /\ now < MaxTime
    /\ now' = now + 1
    /\ last' = Idle
    /\ UNCHANGED <<config, calc, call, strategy, pc, chain, close_swaps>>

NewBlock ==
    /\ pc = "poll"
    /\ chainBlock < MaxBlock
    /\ chainBlock' = chainBlock + 1
    /\ last' = Idle
    /\ UNCHANGED <<config, calc, call, strategy, pc, now, inflight, close_swaps>>

\* A swap whose receipt wait timed out is mined (or dropped) later.
SwapResolves ==
    /\ pc = "poll"
    /\ inflight > 0
    /\ inflight' = inflight - 1
    /\ last' = Idle
    /\ UNCHANGED <<config, calc, call, strategy, pc, now, chainBlock, close_swaps>>

Next ==
    \/ PollNone
    \/ PollMessage
    \/ TickSkipped
    \/ Tick
    \/ SkipEvent
    \/ StrategyStep
    \/ MalformedMessage
    \/ EventsDone
    \/ Clock
    \/ NewBlock
    \/ SwapResolves

Spec == Init /\ [][Next]_vars

\* The loop keeps running: stream.poll returns within its timeout whether or
\* not a message arrived, and the pool events of a message run out.
LiveSpec ==
    /\ Spec
    /\ WF_vars(PollNone \/ PollMessage)
    /\ WF_vars(EventsDone)


\* ------------------------- trader.py: one call of execute_trade, by steps
\* Further pool events execute_trade can be handed.
EvNoCurrency == [EvGood EXCEPT !.HasCurrencyB = FALSE]
EvNoAddress == [EvGood EXCEPT !.AddressB = ""]
EvBarePrefix == [EvGood EXCEPT !.AddressA = "0x"]
EvNoPrefix == [EvGood EXCEPT !.AddressA = "weth"]
EvBadAddress == [EvGood EXCEPT !.AddressB = "0xZZ"]
EvOneSided == [EvGood EXCEPT !.BtoAPrices = <<>>]
EvUpperV2 == [EvGood EXCEPT !.ProtocolName = <<"P", "a", "n", "_", "V", "2">>]
EvBothNames == [EvGood EXCEPT !.ProtocolName = <<"v", "3", "-", "v", "2">>]
EvShortV3 == [EvGood EXCEPT !.ProtocolName = <<"V", "3">>]
EvNoName == [EvGood EXCEPT !.ProtocolName = <<>>]
EvFeedGas == [EvGood EXCEPT !.TxGasPrice = Some(10)]
EvFeedGasHigh == [EvGood EXCEPT !.TxGasPrice = Some(250), !.BaseFee = Some(10)]
EvBaseFee == [EvGood EXCEPT !.BaseFee = Some(200)]

TradeEvents ==
    Events \o <<EvNoCurrency, EvNoAddress, EvBarePrefix, EvNoPrefix, EvBadAddress,
                EvOneSided, EvUpperV2, EvBothNames, EvShortV3, EvNoName,
                EvFeedGas, EvFeedGasHigh, EvBaseFee>>

TradeEventIds == DOMAIN TradeEvents

\* The settings of the trader's GasManager: gas_price_gwei (None: use the
\* network price) and max_gas_price_gwei.
GasSettings ==
    {[gas_price_gwei |-> None, max_gas_price_gwei |-> 200],
     [gas_price_gwei |-> None, max_gas_price_gwei |-> 20],
     [gas_price_gwei |-> Some(300), max_gas_price_gwei |-> 200]}

TokenIn(pool_event, direction) ==
    get_token_address(IF direction = "AtoB" THEN pool_event.AddressA
                      ELSE pool_event.AddressB)

TokenOut(pool_event, direction) ==
    get_token_address(IF direction = "AtoB" THEN pool_event.AddressB
                      ELSE pool_event.AddressA)

DecimalsIn(pool_event, direction) ==
    IF direction = "AtoB" THEN pool_event.DecimalsA ELSE pool_event.DecimalsB

Returned(c, result) == [c EXCEPT !.pc = "returned", !.result = result]

\* execute_trade up to the call of the executor: the validations, the price
\* entry, the feed's gas price and the choice of the executor.  The strategy
\* calls it with the median slippage, which it could compute.
BeginTrade ==
    /\ call.pc = "idle"
    /\ \E e \in TradeEventIds, direction \in {"AtoB", "BtoA"},
          amount_in \in 1..MaxAmount, gas \in GasSettings :
          /\ ~SortRaises(Prices(TradeEvents[e], direction))
          /\ LET pool_event == TradeEvents[e]
                 slippage_bps == StrategySlippage(pool_event, direction)
                 i == get_price_for_slippage(pool_event, direction, slippage_bps)
                 price_entry == Prices(pool_event, direction)[i]
                 c == [NoCall EXCEPT
                         !.event = e, !.direction = direction,
                         !.amount_in = amount_in,
                         !.gas_price_gwei = gas.gas_price_gwei,
                         !.max_gas_price_gwei = gas.max_gas_price_gwei]
             IN  call' =
                   IF ~pool_event.HasPool THEN Returned(c, NoTrade)
                   ELSE IF ~pool_event.HasCurrencyA \/ ~pool_event.HasCurrencyB
                        THEN Returned(c, NoTrade)
                   ELSE IF TokenIn(pool_event, direction) = ""
                           \/ TokenOut(pool_event, direction) = ""
                        THEN Returned(c, NoTrade)
                   ELSE IF i = 0 THEN Returned(c, NoTrade)
                   ELSE IF ~price_entry.Finite THEN Returned(c, Raised)
                   ELSE IF SelectExecutor(pool_event.ProtocolName) = "none"
                        THEN Returned(c, NoTrade)
                   ELSE [c EXCEPT
                           !.pc = "swap",
                           !.amount_in_smallest =
                               convert_amount_to_smallest_unit(
                                   amount_in, DecimalsIn(pool_event, direction)),
                           !.expected_out = amount_in * price_entry.Price,
                           !.price = price_entry.Price,
                           !.slippage_bps = slippage_bps,
                           !.stream_gas_price_wei = extract_gas_from_stream(pool_event),
                           !.executor = SelectExecutor(pool_event.ProtocolName)]
    /\ UNCHANGED <<config, calc, strategy, pc, now, chain, close_swaps, last>>

\* ---------------------- uniswap_v2.py, uniswap_v3.py: execute_swap, by steps
\* The steps of execute_swap that run inside its try block.
GuardedStepsWithoutApprovalWait ==
    {"eth_balance", "gas_funds", "allowance", "approve", "send"}

GuardedSteps ==
    {"eth_balance", "gas_funds", "allowance", "approve", "approve_wait", "send"}

\* The chain client raised in this step of execute_swap.
SwapException(c, step) ==
    IF step \in GuardedSteps
    THEN Returned([c EXCEPT !.failed_step = step], NoTrade)
    ELSE [c EXCEPT !.pc = "returned", !.failed_step = step, !.raised = TRUE,
                   !.result = Raised]

\* The answers of w3.eth.gas_price (None: the query raised).
RpcGasPrices == {None, Some(10), Some(40)}

is_eth_in(c) == TokenIn(TradeEvents[c.event], c.direction) = "WETH"

is_eth_out(c) == TokenOut(TradeEvents[c.event], c.direction) = "WETH"

GasPriceOf(c, rpc) ==
    get_gas_price(c.stream_gas_price_wei, c.gas_price_gwei,
                  c.max_gas_price_gwei, rpc).price

ChainQueries(c) ==
    IF ConsultsChain(c.stream_gas_price_wei, c.gas_price_gwei) THEN 1 ELSE 0

\* The queries of w3.eth.gas_price that raised inside get_gas_price.
ChainFailures(c, rpc) ==
    IF ConsultsChain(c.stream_gas_price_wei, c.gas_price_gwei) /\ ~rpc.ok
    THEN 1 ELSE 0

\* The native balances w3.eth.get_balance can answer (None: the query raised).
NativeBalances(c, gas_price) ==
    {None}
    \cup {Some(g * SwapGasLimit + d) :
            g \in {gas_price, c.gas_price}, d \in {-1, 0}}
    \cup {Some(c.amount_in_smallest + g * SwapGasLimit + d) :
            g \in {gas_price, c.gas_price}, d \in {-1, 0}}

\* The gas price the swap transaction will carry.
SwapGasPrice ==
    /\ call.pc = "swap"
    /\ \E rpc \in RpcGasPrices :
          call' = [call EXCEPT
                     !.gas_price = GasPriceOf(call, rpc),
                     !.rpc_queries = @ + ChainQueries(call),
                     !.rpc_failures = @ + ChainFailures(call, rpc),
                     !.pc = IF is_eth_in(call) THEN "check_eth" ELSE "check_token"]
    /\ UNCHANGED <<config, calc, strategy, pc, now, chain, close_swaps, last>>

\* check_eth_balance for a swap that pays in the native asset.
CheckEthBalance ==
    /\ call.pc = "check_eth"
    /\ \E rpc \in RpcGasPrices :
          LET gas_price == GasPriceOf(call, rpc)
              c == [call EXCEPT !.check_gas_price = gas_price,
                                !.rpc_queries = @ + ChainQueries(call),
                                !.rpc_failures = @ + ChainFailures(call, rpc)]
          IN  \E balance_wei \in NativeBalances(call, gas_price) :
                call' =
                  IF ~balance_wei.ok THEN SwapException(c, "eth_balance")
                  ELSE IF check_eth_balance(c.amount_in_smallest, balance_wei.v,
                                            gas_price)
                       THEN [c EXCEPT !.balance_wei = balance_wei, !.pc = "send"]
                       ELSE Returned([c EXCEPT !.balance_wei = balance_wei], NoTrade)
    /\ UNCHANGED <<config, calc, strategy, pc, now, chain, close_swaps, last>>

\* ------------------------- utils/token_utils.py: check_and_approve_token
\* The answers of balanceOf and allowance (None: the call raised).
TokenAnswers(c) ==
    {None, Some(c.amount_in_smallest - 1), Some(c.amount_in_smallest)}

\* balanceOf inside its own try: a failure and a short balance both give False.
CheckTokenBalance ==
    /\ call.pc = "check_token"
    /\ \E token_balance \in TokenAnswers(call) :
          call' =
            IF ~token_balance.ok
            THEN Returned([call EXCEPT !.failed_step = "token_balance"], NoTrade)
            ELSE IF token_balance.v < call.amount_in_smallest
                 THEN Returned([call EXCEPT !.token_balance = token_balance], NoTrade)
                 ELSE [call EXCEPT !.token_balance = token_balance,
                                   !.pc = "gas_funds"]
    /\ UNCHANGED <<config, calc, strategy, pc, now, chain, close_swaps, last>>

\* The native balance must cover the estimated gas cost.
CheckGasFunds ==
    /\ call.pc = "gas_funds"
    /\ \E rpc \in RpcGasPrices :
          LET gas_price == GasPriceOf(call, rpc)
              c == [call EXCEPT !.check_gas_price = gas_price,
                                !.rpc_queries = @ + ChainQueries(call),
                                !.rpc_failures = @ + ChainFailures(call, rpc)]
          IN  \E balance_wei \in NativeBalances(call, gas_price) :
                call' =
                  IF ~balance_wei.ok THEN SwapException(c, "gas_funds")
                  ELSE IF balance_wei.v < gas_price * SwapGasLimit
                       THEN Returned([c EXCEPT !.balance_wei = balance_wei], NoTrade)
                       ELSE [c EXCEPT !.balance_wei = balance_wei,
                                      !.pc = "allowance"]
    /\ UNCHANGED <<config, calc, strategy, pc, now, chain, close_swaps, last>>

NeedsApproval(allowance, amount) == allowance < amount

CheckAllowance ==
    /\ call.pc = "allowance"
    /\ \E allowance \in TokenAnswers(call) :
          call' =
            IF ~allowance.ok THEN SwapException(call, "allowance")
            ELSE [call EXCEPT
                    !.allowance = allowance,
                    !.pc = IF NeedsApproval(allowance.v, call.amount_in_smallest)
                           THEN "approve" ELSE "send"]
    /\ UNCHANGED <<config, calc, strategy, pc, now, chain, close_swaps, last>>

\* Nonce, build, sign and send of the approval; any of them may raise.
SendApproval ==
    /\ call.pc = "approve"
    /\ \E sent \in BOOLEAN :
          call' =
            IF ~sent THEN SwapException(call, "approve")
            ELSE [call EXCEPT
                    !.sent = Append(@, [kind |-> "approve",
                                        gasPrice |-> call.check_gas_price,
                                        value |-> 0]),
                    !.approval = "sent",
                    !.pc = "approve_wait"]
    /\ UNCHANGED <<config, calc, strategy, pc, now, chain, close_swaps, last>>

ApprovalOutcomes == {"timeout", "reverted", "confirmed"}

ApprovalPassesAlsoReverted(outcome) == outcome \in {"confirmed", "reverted"}

ApprovalPasses(outcome) == outcome = "confirmed"

\* wait_for_transaction_receipt of the approval: a timeout raises.
ApprovalReceipt ==
    /\ call.pc = "approve_wait"
    /\ \E outcome \in ApprovalOutcomes :
          LET c == [call EXCEPT !.approval = outcome]
          IN  call' =
                IF outcome = "timeout" THEN SwapException(c, "approve_wait")
                ELSE IF ApprovalPasses(outcome) THEN [c EXCEPT !.pc = "send"]
                ELSE Returned(c, NoTrade)
    /\ UNCHANGED <<config, calc, strategy, pc, now, chain, close_swaps, last>>

\* --------------------------------- execute_swap: build, sign and send
\* Nonce, build, sign and send of the swap; any of them may raise.
SendSwap ==
    /\ call.pc = "send"
    /\ \E sent \in BOOLEAN :
          call' =
            IF ~sent THEN SwapException(call, "send")
            ELSE [call EXCEPT
                    !.sent = Append(@, [kind |-> "swap",
                                        gasPrice |-> call.gas_price,
                                        value |-> IF is_eth_in(call)
                                                  THEN call.amount_in_smallest
                                                  ELSE 0]),
                    !.tx_hash = TRUE,
                    !.pc = "receipt"]
    /\ UNCHANGED <<config, calc, strategy, pc, now, chain, close_swaps, last>>

\* --------------------------------- execute_trade: the wait for the receipt
ReceiptOutcomes == {"timeout", "reverted", "success"}

ResultStatusTimeoutFailed(outcome) ==
    CASE outcome = "success" -> "confirmed"
      [] outcome = "reverted" -> "failed"
      [] OTHER -> "failed"

\* The status of the result for the outcome of wait_for_transaction_receipt.
ResultStatus(outcome) ==
    CASE outcome = "success" -> "confirmed"
      [] outcome = "reverted" -> "failed"
      [] OTHER -> "pending"

\* The balances calculate_actual_amount_out reads (None: the query raised).
BalancesAfter(c) == {None} \cup {Some(b) : b \in 0..(c.expected_out + 1)}
BalancesBefore == {None, Some(0), Some(1)}
GasCosts(c) == IF is_eth_out(c) THEN {0, 1} ELSE {0}

WaitReceipt ==
    /\ call.pc = "receipt"
    /\ \E outcome \in ReceiptOutcomes :
          LET c == [call EXCEPT !.receipt = outcome]
          IN  IF ResultStatus(outcome) = "confirmed"
              THEN \E balance_after \in BalancesAfter(call),
                      balance_before \in BalancesBefore,
                      gas_cost \in GasCosts(call),
                      block_number \in ReceiptBlocks(chainBlock + 1) :
                     call' = Returned(
                        [c EXCEPT !.balance_after = balance_after,
                                  !.balance_before = balance_before,
                                  !.gas_cost = gas_cost],
                        [status |-> "confirmed", broadcast |-> TRUE,
                         block_number |-> block_number,
                         amount_in |-> call.amount_in,
                         amount_out |->
                             calculate_actual_amount_out(
                                 ObservedDelta(is_eth_out(call), balance_after,
                                               balance_before, gas_cost),
                                 call.expected_out),
                         price |-> call.price,
                         slippage_bps |-> call.slippage_bps])
              ELSE call' = Returned(c, [NoTrade EXCEPT
                                         !.status = ResultStatus(outcome),
                                         !.broadcast = TRUE])
    /\ UNCHANGED <<config, calc, strategy, pc, now, chain, close_swaps, last>>

\* execute_trade has returned; the next call starts afresh.
ReturnTrade ==
    /\ call.pc = "returned"
    /\ call' = NoCall
    /\ UNCHANGED <<config, calc, strategy, pc, now, chain, close_swaps, last>>

SwapNext ==
    \/ BeginTrade
    \/ SwapGasPrice
    \/ CheckEthBalance
    \/ CheckTokenBalance
    \/ CheckGasFunds
    \/ CheckAllowance
    \/ SendApproval
    \/ ApprovalReceipt
    \/ SendSwap
    \/ WaitReceipt
    \/ ReturnTrade

\* A single call does not depend on the strategy's settings: it is followed
\* under the first of the configurations.
SwapInit == Init /\ enabled /\ trade_direction = "None"

SwapSpec == SwapInit /\ [][SwapNext]_vars

\* ------------------------------------ price_utils.py: the helpers, called
\* The helpers of price_utils.py are functions of their arguments.  Each
\* action below calls one of them with arguments drawn from bounded sets and
\* keeps the arguments and the result in calc.  A bucket the price table
\* does not hold and an empty bucket are both the empty sequence.
MaxBucket == 4

SlippageLevels == {10, 30, 50}

\* Price entries that differ in their slippage only (None: no slippage).
SlippageEntries ==
    {[Entry(s, 1, 1) EXCEPT !.MaxAmountIn = Some(s)] : s \in SlippageLevels}
    \cup {[Entry(0, 1, 1) EXCEPT !.SlippageBasisPoints = None]}

RECURSIVE BucketsOfLength(_)
BucketsOfLength(n) ==
    IF n = 0 THEN {<<>>}
    ELSE {Append(b, e) : b \in BucketsOfLength(n - 1), e \in SlippageEntries}

Buckets == UNION {BucketsOfLength(n) : n \in 0..MaxBucket}

\* The bucket of the direction that is not asked for.
OtherBucket == <<Entry(70, 1, 1)>>

TableWith(bucket, direction) ==
    IF direction = "AtoB"
    THEN [AtoBPrices |-> bucket, BtoAPrices |-> OtherBucket]
    ELSE [AtoBPrices |-> OtherBucket, BtoAPrices |-> bucket]

rest == <<config, strategy, pc, now, chain, close_swaps, last, call>>

\* get_median_slippage_bps(price_table, direction)
MedianSlippage ==
    /\ calc = NoCalc
    /\ \E bucket \in Buckets, direction \in {"AtoB", "BtoA"} :
          calc' = [fn |-> "median", bucket |-> bucket, direction |-> direction,
                   result |-> get_median_slippage_bps(
                                  TableWith(bucket, direction), direction)]
    /\ UNCHANGED rest

\* get_best_slippage_bps(price_table, direction), with the median of the same
\* bucket beside it.
BestSlippage ==
    /\ calc = NoCalc
    /\ \E bucket \in Buckets, direction \in {"AtoB", "BtoA"} :
          calc' = [fn |-> "best", bucket |-> bucket, direction |-> direction,
                   median |-> get_median_slippage_bps(
                                  TableWith(bucket, direction), direction),
                   result |-> get_best_slippage_bps(
                                  TableWith(bucket, direction), direction)]
    /\ UNCHANGED rest

\* get_price_for_slippage(price_table, direction, slippage_bps)
PriceForSlippage ==
    /\ calc = NoCalc
    /\ \E bucket \in Buckets, direction \in {"AtoB", "BtoA"},
          slippage_bps \in SlippageLevels \cup {70} :
          calc' = [fn |-> "price", bucket |-> bucket, direction |-> direction,
                   slippage_bps |-> slippage_bps,
                   result |-> get_price_for_slippage(
                                  TableWith(bucket, direction), direction,
                                  slippage_bps)]
    /\ UNCHANGED rest

\* The liquidity amounts a pool event can carry: absent, a number, or a
\* string the decoder left ("10", "0x10", and "0x" for empty bytes).
LiquidityAmounts ==
    {None, Some(0), Some(2), Some(4), Some(500), Some(1000),
     Text(<<"1", "0">>), Text(<<"0", "x", "1", "0">>), Text(<<"0", "x">>)}

\* The buckets of the pool events the resolver is called with: empty, one
\* entry, two entries not sorted by slippage, an entry without slippage, an
\* entry without MaxAmountIn, and an entry whose MaxAmountIn is a string.
ResolverBuckets ==
    {<<>>,
     <<Entry(10, 1, 2)>>,
     <<Entry(50, 1, 1), Entry(10, 1, 4)>>,
     <<[Entry(0, 1, 2) EXCEPT !.SlippageBasisPoints = None]>>,
     <<[Entry(10, 1, 0) EXCEPT !.MaxAmountIn = None]>>,
     <<[Entry(10, 1, 0) EXCEPT !.MaxAmountIn = Text(<<"0", "x">>)]>>}

\* get_best_direction_by_liquidity(pool_event, slippage_bps)
BestDirection ==
    /\ calc = NoCalc
    /\ \E a \in LiquidityAmounts, b \in LiquidityAmounts,
          atob \in ResolverBuckets, btoa \in ResolverBuckets,
          slippage_bps \in {None, Some(10)} :
          LET pool_event == [AmountCurrencyA |-> a, AmountCurrencyB |-> b,
                             AtoBPrices |-> atob, BtoAPrices |-> btoa]
          IN  calc' = [fn |-> "direction", pool_event |-> pool_event,
                       slippage_bps |-> slippage_bps,
                       path |-> DirectionPath(pool_event, slippage_bps),
                       atob_max |-> MaxAmountInAt(pool_event, "AtoB", slippage_bps),
                       btoa_max |-> MaxAmountInAt(pool_event, "BtoA", slippage_bps),
                       result |-> get_best_direction_by_liquidity(
                                      pool_event, slippage_bps)]
    /\ UNCHANGED rest

\* ---------------------- conversion_utils.py: the conversions, called
\* Amounts as str() writes them: 1.0, 100, 0.0, 1e-07, 1.9999999,
\* 0.30000000000000004, 2.5, 1234567.891234567.
ConversionAmounts ==
    { Dec(<<1, 0>>, -1), Dec(<<1, 0, 0>>, 0), Dec(<<0, 0>>, -1),
      Dec(<<1>>, -7), Dec(<<1, 9, 9, 9, 9, 9, 9, 9>>, -7),
      Dec(<<3, 0, 0, 0, 0, 0, 0, 0, 0, 0, 0, 0, 0, 0, 0, 0, 4>>, -17),
      Dec(<<2, 5>>, -1),
      Dec(<<1, 2, 3, 4, 5, 6, 7, 8, 9, 1, 2, 3, 4, 5, 6, 7>>, -9) }

TokenDecimals == {0, 6, 18}

\* convert_amount_to_smallest_unit(amount, decimals), and the way back.
ToSmallestUnit ==
    /\ calc = NoCalc
    /\ \E amount \in ConversionAmounts, decimals \in TokenDecimals :
          calc' = [fn |-> "to_smallest", amount |-> amount,
                   decimals |-> decimals,
                   result |-> to_smallest_unit(amount, decimals),
                   back |-> convert_amount_from_smallest_unit(
                                to_smallest_unit(amount, decimals), decimals)]
    /\ UNCHANGED rest

\* Prices as str() writes them: 2.0, 0.5, 3012.4567891234,
\* 1234567.891234567.
ConversionPrices ==
    { Dec(<<2, 0>>, -1), Dec(<<0, 5>>, -1),
      Dec(<<3, 0, 1, 2, 4, 5, 6, 7, 8, 9, 1, 2, 3, 4>>, -10),
      Dec(<<1, 2, 3, 4, 5, 6, 7, 8, 9, 1, 2, 3, 4, 5, 6, 7>>, -9) }

SlippageSettings == {0, 30, 50, 10000}

\* calculate_amount_out_min(amount_in, price, decimals_out, slippage_bps)
AmountOutMin ==
    /\ calc = NoCalc
    /\ \E amount_in \in ConversionAmounts, price \in ConversionPrices,
          decimals_out \in TokenDecimals, slippage_bps \in SlippageSettings :
          calc' = [fn |-> "amount_out_min", amount_in |-> amount_in,
                   price |-> price, decimals_out |-> decimals_out,
                   slippage_bps |-> slippage_bps,
                   result |-> calculate_amount_out_min(
                                  amount_in, price, decimals_out, slippage_bps)]
    /\ UNCHANGED rest

\* ------------- the wallet between an opening trade and the close of it
\* The wallet's balances before the opening: the native asset, the wrapped
\* native token (the contract at WETH_ADDRESS) and the other token.
Wallets ==
    {[native |-> n, WETH |-> w, TOK |-> t] :
        n \in {3, 5}, w \in {0, 1}, t \in {2, 3}}

\* Where the router takes the input of a swap from: the native asset when
\* token_in is WETH_ADDRESS (swapExactETHForTokens, or value attached to
\* exactInputSingle), the input token otherwise.
DebitedFrom(token_in_address) ==
    IF token_in_address = "WETH" THEN "native" ELSE token_in_address

\* Where the router pays the output of a swap: swapExactTokensForETH pays
\* the native asset, every other call the output token.
CreditedTo(executor, token_out_address) ==
    IF executor = "v2" /\ token_out_address = "WETH" THEN "native"
    ELSE token_out_address

WalletAfterSwap(wallet, executor, token_in, token_out, amount_in, amount_out, gas_cost) ==
    LET gas   == [wallet EXCEPT !.native = @ - gas_cost]
        input == [gas EXCEPT ![DebitedFrom(token_in)] = @ - amount_in]
    IN  [input EXCEPT ![CreditedTo(executor, token_out)] = @ + amount_out]

\* The balance calculate_actual_amount_out reads at the receipt's block and
\* the block before it.
ReconcilerReads(token_out_address) ==
    IF token_out_address = "WETH" THEN "native" ELSE token_out_address

\* The balance get_token_balance reads: balanceOf of the token contract.
LiveBalanceReads(token_address) == token_address

\* An opening trade of two units at price 1 is confirmed and the position is
\* closed with no other change of the wallet in between.
CloseAfterOpening ==
    /\ calc = NoCalc
    /\ \E wallet \in Wallets, executor \in {"v2", "v3"},
          token_out_address \in {"WETH", "TOK"},
          amount_out \in 2..3, gas_cost \in 0..1 :
          LET token_in_address ==
                  IF token_out_address = "WETH" THEN "TOK" ELSE "WETH"
              after == WalletAfterSwap(wallet, executor, token_in_address,
                                       token_out_address, 2, amount_out, gas_cost)
              delta == ObservedDelta(token_out_address = "WETH",
                           Some(after[ReconcilerReads(token_out_address)]),
                           Some(wallet[ReconcilerReads(token_out_address)]),
                           gas_cost)
              result == [status |-> "confirmed", broadcast |-> TRUE,
                         block_number |-> 2, amount_in |-> 2,
                         amount_out |-> calculate_actual_amount_out(delta, 2),
                         price |-> 1, slippage_bps |-> DefaultSlippageBps]
              actual_balance == Some(after[LiveBalanceReads(token_out_address)])
          IN  calc' = [fn |-> "held", wallet |-> wallet, after |-> after,
                       executor |-> executor,
                       token_out_address |-> token_out_address,
                       received |-> amount_out,
                       credited |-> CreditedTo(executor, token_out_address),
                       reconciler_reads |-> ReconcilerReads(token_out_address),
                       close_reads |-> LiveBalanceReads(token_out_address),
                       stored |-> StoredAmount(result),
                       actual_balance |-> actual_balance,
                       amount_out |-> ResolveCloseAmount(StoredAmount(result),
                                                         actual_balance)]
    /\ UNCHANGED rest

\* The slippage execute_strategy chooses for an opening trade and the price
\* entry execute_trade then takes for it.
OpeningPrice ==
    /\ calc = NoCalc
    /\ \E bucket \in Buckets, direction \in {"AtoB", "BtoA"} :
          LET pool_price_table == TableWith(bucket, direction)
              median_slippage == StrategySlippage(pool_price_table, direction)
          IN  calc' = [fn |-> "opening", bucket |-> bucket,
                       direction |-> direction,
                       median |-> get_median_slippage_bps(
                                      pool_price_table, direction),
                       slippage_bps |-> median_slippage,
                       price_entry |-> get_price_for_slippage(
                                           pool_price_table, direction,
                                           median_slippage)]
    /\ UNCHANGED rest

\* The helper has returned.
HelperReturns ==
    /\ calc # NoCalc
    /\ calc' = NoCalc
    /\ UNCHANGED rest

HelperNext ==
    \/ MedianSlippage
    \/ BestSlippage
    \/ PriceForSlippage
    \/ BestDirection
    \/ ToSmallestUnit
    \/ AmountOutMin
    \/ CloseAfterOpening
    \/ OpeningPrice
    \/ HelperReturns

HelperSpec == SwapInit /\ [][HelperNext]_vars

\* ---------------------------------------------------------------- properties
PositionIds(positions) == {positions[i].id : i \in DOMAIN positions}

StatusOf(positions, id) ==
    {positions[i].status : i \in {j \in DOMAIN positions : positions[j].id = id}}

\* C1: in every reachable state the ledger holds at most one position whose
\* status is open.
C1_AtMostOneOpen ==
    Cardinality({i \in DOMAIN open_positions :
                    open_positions[i].status = "open"}) <= 1

\* A second position is open while an earlier, failed one is still retained.
C1_Witness ==
    /\ Len(open_positions) = 2
    /\ open_positions[1].status \in {"close_failed", "close_error"}
    /\ open_positions[2].status = "open"

\* C2: for every position at most one close swap is ever broadcast, whatever
\* the outcome of the first close attempt.
C2_AtMostOneCloseSwap ==
    \A id \in DOMAIN close_swaps : close_swaps[id] <= 1

\* C3: no swap, opening or closing, is broadcast while a swap broadcast
\* earlier is still unmined.
C3_NoSwapWhileOneIsUnmined ==
    /\ (last.kind = "strategy" /\ last.result.broadcast) => last.unmined = 0
    /\ \A a \in last.attempts : a.broadcast => a.unmined = 0

\* C4: execute_strategy calls the executor only when trading is enabled, no
\* position is open, the minimum interval has passed since the last opening
\* attempt, and the event has a price table and nonzero liquidity on both
\* sides; otherwise no counter, ledger entry or timer changes.
C4_Gate(e) ==
    /\ enabled
    /\ \A i \in DOMAIN open_positions : open_positions[i].status # "open"
    /\ now - last_trade_time >= MinTradeInterval
    /\ Events[e].AtoBPrices # <<>> \/ Events[e].BtoAPrices # <<>>
    /\ Events[e].AmountCurrencyA.ok
    /\ IsText(Events[e].AmountCurrencyA) \/ Events[e].AmountCurrencyA.v # 0
    /\ Events[e].AmountCurrencyB.ok
    /\ IsText(Events[e].AmountCurrencyB) \/ Events[e].AmountCurrencyB.v # 0

C5_PositionOnlyOnConfirmed ==
    [][/\ (last'.kind = "strategy" /\ last'.called /\
           last'.result.status = "confirmed" /\ last'.result.block_number # 0) =>
             /\ Len(open_positions') = Len(open_positions) + 1
             /\ SubSeq(open_positions', 1, Len(open_positions)) = open_positions
             /\ open_positions'[Len(open_positions')].status = "open"
             /\ open_positions'[Len(open_positions')].open_block =
                    last'.result.block_number
       /\ (last'.kind = "strategy" /\
           ~(last'.called /\ last'.result.status = "confirmed" /\
             last'.result.block_number # 0)) =>
             open_positions' = open_positions
       /\ (last'.kind # "strategy" =>
             PositionIds(open_positions') \subseteq PositionIds(open_positions))
      ]_vars

\* A confirmed opening trade with a block number has just registered a position.
C5_Witness ==
    /\ last.kind = "strategy"
    /\ last.result.status = "confirmed"
    /\ last.result.block_number # 0
    /\ open_positions # <<>>
    /\ open_positions[Len(open_positions)].id = total_trades
    /\ open_positions[Len(open_positions)].status = "open"

\* C6: on a tick at block height b with trading enabled, a close is attempted
\* for exactly the open positions with b - open_block >= close_blocks, and no
\* close swap is broadcast for a position with b - open_block < close_blocks
\* or outside a tick.
C6_DueExactly ==
    [][/\ (last'.kind = "tick" /\ enabled) =>
             /\ {a.id : a \in last'.attempts} =
                   {open_positions[i].id :
                      i \in {j \in DOMAIN open_positions :
                               /\ open_positions[j].status = "open"
                               /\ chainBlock - open_positions[j].open_block
                                     >= close_blocks}}
             /\ \A a \in last'.attempts :
                   a.broadcast => chainBlock - a.open_block >= close_blocks
       /\ (last'.kind # "tick" \/ ~enabled) =>
             /\ close_swaps' = close_swaps
             /\ last'.attempts = {}
      ]_vars

\* A position opened with close_blocks = 3 is closed at exactly open_block + 3.
C6_Witness ==
    /\ last.kind = "tick"
    /\ close_blocks = 3
    /\ \E a \in last.attempts :
          /\ last.current_block - a.open_block = 3
          /\ a.broadcast

\* C7: after a close attempt that called the executor, the position is closed
\* (and gone from the ledger) if the result was confirmed, close_failed if it
\* was failed or no trade, and close_error if the attempt raised.
C7_CloseStatusByOutcome ==
    \A a \in last.attempts :
       a.called =>
          /\ a.result = "confirmed" =>
                a.status_after = "closed" /\ StatusOf(open_positions, a.id) = {}
          /\ a.result \in {"failed", "none"} =>
                StatusOf(open_positions, a.id) = {"close_failed"}
          /\ a.result = "raised" =>
                StatusOf(open_positions, a.id) = {"close_error"}

\* A close attempt raised and left the position in close_error.
C7_Witness ==
    \E a \in last.attempts :
       /\ a.called
       /\ a.result = "raised"
       /\ StatusOf(open_positions, a.id) = {"close_error"}

\* C8: a position in close_failed or close_error stays in the ledger unchanged
\* and no later tick attempts a close for it; a position that becomes closed
\* is removed within the same tick, so the ledger never holds a closed position.
C8_FailedStay ==
    \A i \in DOMAIN open_positions :
       open_positions[i].status \in {"close_failed", "close_error"} =>
          /\ \E j \in DOMAIN open_positions' :
                open_positions'[j] = open_positions[i]
          /\ \A a \in last'.attempts : a.id # open_positions[i].id
          /\ close_swaps'[open_positions[i].id] = close_swaps[open_positions[i].id]

C8_NoClosedInLedger ==
    /\ \A i \in DOMAIN open_positions : open_positions[i].status # "closed"
    /\ \A a \in last.attempts :
          a.status_after = "closed" => a.id \notin PositionIds(open_positions)

C8_TerminalStates ==
    [][C8_FailedStay]_vars /\ []C8_NoClosedInLedger

\* A tick at which a failed position was due by block height made no attempt
\* for it and kept it.
C8_Witness ==
    /\ last.kind = "tick"
    /\ last.attempts = {}
    /\ \E i \in DOMAIN open_positions :
          /\ open_positions[i].status \in {"close_failed", "close_error"}
          /\ last.current_block - open_positions[i].open_block >= close_blocks

\* C9: whenever a close swap is broadcast and the live balance query of that
\* attempt succeeded, the swap's input amount is at most the live balance, and
\* at most the recorded amount when that is valid.
C9_CloseAmountWithinBalance ==
    \A a \in last.attempts :
       (a.broadcast /\ a.live.ok) =>
          /\ a.amount <= a.live.v
          /\ a.stored > Epsilon => a.amount <= a.stored

\* A close swap was broadcast for less than the recorded amount because the
\* live balance was smaller.
C9_Witness ==
    \E a \in last.attempts :
       /\ a.broadcast
       /\ a.live.ok
       /\ a.stored > Epsilon
       /\ a.live.v < a.stored
       /\ a.amount = a.live.v

\* C10: the close amount is the live balance when the recorded amount is at
\* most epsilon and the live balance is positive; the recorded amount when it
\* is valid and the balance query failed; the minimum of both when both are
\* available; and the position is marked close_failed without calling the
\* executor when the recorded amount is at most epsilon and the live balance
\* is unavailable or not positive, or when the resolved amount is not positive.
C10_Submitted(a, amount) ==
    a.called /\ a.amount = amount

C10_FailedUnsubmitted(a) ==
    /\ ~a.called
    /\ ~a.broadcast
    /\ a.status_after = "close_failed"
    /\ StatusOf(open_positions, a.id) = {"close_failed"}

C10_CloseAmountResolution ==
    \A a \in last.attempts :
       /\ (a.stored <= Epsilon /\ a.live.ok /\ a.live.v > 0) =>
             C10_Submitted(a, a.live.v)
       /\ (a.stored <= Epsilon /\ (~a.live.ok \/ a.live.v <= 0)) =>
             C10_FailedUnsubmitted(a)
       /\ (a.stored > Epsilon /\ ~a.live.ok) =>
             C10_Submitted(a, a.stored)
       /\ (a.stored > Epsilon /\ a.live.ok /\ a.live.v > 0) =>
             C10_Submitted(a, IF a.stored <= a.live.v THEN a.stored ELSE a.live.v)
       /\ (a.stored > Epsilon /\ a.live.ok /\ a.live.v <= 0) =>
             C10_FailedUnsubmitted(a)

\* A recorded amount of 0 with a positive live balance closes with the balance.
C10_Witness ==
    \E a \in last.attempts :
       /\ a.stored = 0
       /\ a.live.ok
       /\ a.live.v = MaxAmount
       /\ a.called
       /\ a.amount = MaxAmount

\* C11: with a positive configured trade amount every position in the ledger
\* holds a stored output amount strictly greater than zero, also when the
\* confirmed opening result reported an amount of zero or a price of zero.
C11_StoredAmountPositive ==
    trade_amount > 0 =>
        \A i \in DOMAIN open_positions : open_positions[i].amount_out > 0

\* An opening trade on a zero price was confirmed with a reported amount of
\* zero, and its position was registered with the configured trade amount.
C11_Witness ==
    /\ trade_amount > 0
    /\ last.kind = "strategy"
    /\ last.result.status = "confirmed"
    /\ last.result.amount_out = 0
    /\ last.result.price = 0
    /\ \E i \in DOMAIN open_positions :
          /\ open_positions[i].id = total_trades
          /\ open_positions[i].amount_out = trade_amount

\* C12: if ticks with a successful block height query keep occurring, an
\* open position whose closing block has been reached is eventually given a
\* close attempt, whether or not another feed event arrives.
C12_OpenAndDue(id) ==
    \E i \in DOMAIN open_positions :
       /\ open_positions[i].id = id
       /\ open_positions[i].status = "open"
       /\ chainBlock >= open_positions[i].open_block + close_blocks

C12_Attempted(id) == \E a \in last.attempts : a.id = id

C12_DueIsEventuallyAttempted ==
    ([]<><<Tick>>_vars) =>
        \A id \in 1..MaxTrades : C12_OpenAndDue(id) ~> C12_Attempted(id)

\* A tick that followed a poll without a message made the close attempt.
C12_Witness ==
    /\ pc = "poll"
    /\ last.kind = "tick"
    /\ \E a \in last.attempts :
          chainBlock >= a.open_block + close_blocks

\* C13: once a transaction hash was obtained, the result is pending exactly
\* when the wait for the receipt timed out or raised (the hash is kept and
\* no amount is reported), failed exactly when the receipt reports a revert,
\* and confirmed exactly when the receipt reports success.
C13_StatusByReceipt ==
    (call.pc = "returned" /\ call.tx_hash) =>
        /\ call.result.status \in {"pending", "failed", "confirmed"}
        /\ (call.result.status = "pending") <=> (call.receipt = "timeout")
        /\ (call.result.status = "failed") <=> (call.receipt = "reverted")
        /\ (call.result.status = "confirmed") <=> (call.receipt = "success")
        /\ call.result.status = "pending" => call.result = PendingResult

C13_Witness ==
    /\ call.pc = "returned"
    /\ call.tx_hash
    /\ call.receipt = "timeout"
    /\ call.result.status = "pending"

\* C14: a confirmed trade reports the observed balance change (with the gas
\* cost added when the output is the native asset) if it is positive and at
\* least half of the predicted amount, and the predicted amount otherwise,
\* also when a balance query failed.  Predicted 10.0 with observed 0.0002
\* reports 10.0.
C14_Observed ==
    call.balance_after.v - call.balance_before.v
        + (IF TokenOut(TradeEvents[call.event], call.direction) = "WETH"
           THEN call.gas_cost ELSE 0)

C14_ReportedAmount ==
    /\ (call.pc = "returned" /\ call.result.status = "confirmed") =>
          call.result.amount_out =
             IF /\ call.balance_after.ok
                /\ call.balance_before.ok
                /\ C14_Observed > 0
                /\ 2 * C14_Observed >= call.expected_out
             THEN C14_Observed
             ELSE call.expected_out
    /\ calculate_actual_amount_out(Some(200), 10000000) = 10000000

\* The gas cost made the difference: without it the observed change would
\* have been below half of the predicted amount.
C14_Witness ==
    /\ call.pc = "returned"
    /\ call.result.status = "confirmed"
    /\ call.balance_after.ok /\ call.balance_before.ok
    /\ call.gas_cost = 1
    /\ 2 * (call.balance_after.v - call.balance_before.v) < call.expected_out
    /\ call.result.amount_out = call.balance_after.v - call.balance_before.v + 1
    /\ call.result.amount_out # call.expected_out

\* C15: a swap that pays in the native asset is broadcast only if the native
\* balance read during the attempt is at least the input amount plus the gas
\* limit times the gas price the broadcast transaction carries.
C15_NativeSwapCovered ==
    (call.event # 0 /\ is_eth_in(call)) =>
        \A k \in DOMAIN call.sent :
            call.sent[k].kind = "swap" =>
                /\ call.balance_wei.ok
                /\ call.balance_wei.v >=
                       call.amount_in_smallest
                       + SwapGasLimit * call.sent[k].gasPrice

\* C16: a swap that pays in a token is broadcast only after the token balance
\* covered the input amount, the native balance covered the estimated gas
\* cost, and the router's allowance covered the amount or an approval was
\* submitted and confirmed before the swap.  After an approval that reverted
\* or whose confirmation timed out no swap is broadcast and the router
\* returns no trade.
SwapBroadcast == \E k \in DOMAIN call.sent : call.sent[k].kind = "swap"

C16_TokenSwapAfterChecks ==
    (call.event # 0 /\ ~is_eth_in(call)) =>
        /\ SwapBroadcast =>
              /\ call.token_balance.ok
              /\ call.token_balance.v >= call.amount_in_smallest
              /\ call.balance_wei.ok
              /\ call.balance_wei.v >= call.check_gas_price * SwapGasLimit
              /\ call.allowance.ok
              /\ \/ /\ call.allowance.v >= call.amount_in_smallest
                    /\ Len(call.sent) = 1
                 \/ /\ call.approval = "confirmed"
                    /\ Len(call.sent) = 2
                    /\ call.sent[1].kind = "approve"
                    /\ call.sent[2].kind = "swap"
        /\ call.approval \in {"reverted", "timeout"} =>
              /\ ~SwapBroadcast
              /\ call.pc = "returned"
              /\ call.result = NoTrade
              /\ ~call.raised

\* The swap was broadcast after an approval that was submitted and confirmed.
C16_Witness ==
    /\ call.event # 0
    /\ ~is_eth_in(call)
    /\ call.allowance.ok
    /\ call.allowance.v < call.amount_in_smallest
    /\ call.approval = "confirmed"
    /\ Len(call.sent) = 2
    /\ call.sent[2].kind = "swap"

\* C17: execute_swap never raises to its caller: whenever the chain client
\* fails in a balance or allowance query, in the approval, in its
\* confirmation wait or in the nonce, build, sign and send of the swap, it
\* returns no trade; a transaction hash is returned exactly when the swap
\* was broadcast.
C17_RouterNeverRaises ==
    /\ ~call.raised
    /\ call.failed_step # "" =>
          /\ call.pc = "returned"
          /\ call.result = NoTrade
          /\ ~call.tx_hash
    /\ call.tx_hash <=> SwapBroadcast

\* The wait for the approval's confirmation timed out after the approval was
\* broadcast.
C17_Witness ==
    /\ call.failed_step = "approve_wait"
    /\ call.pc = "returned"
    /\ call.result = NoTrade
    /\ Len(call.sent) = 1

\* C18: a trade attempt with missing pool data, missing currency data for
\* either side, an unresolvable token address for either side or no price
\* entry for the chosen direction returns no trade, raises nothing and
\* submits no transaction.
C18_Unresolvable(SmartContract) == SmartContract \notin {"WETH", "TOK"}

C18_Invalid(pool_event, direction) ==
    \/ ~pool_event.HasPool
    \/ ~pool_event.HasCurrencyA
    \/ ~pool_event.HasCurrencyB
    \/ C18_Unresolvable(pool_event.AddressA)
    \/ C18_Unresolvable(pool_event.AddressB)
    \/ Prices(pool_event, direction) = <<>>

C18_InvalidInputNoTrade ==
    (call.event # 0 /\ C18_Invalid(TradeEvents[call.event], call.direction)) =>
        /\ call.pc = "returned"
        /\ call.result = NoTrade
        /\ call.sent = <<>>
        /\ ~call.raised

\* An address without the 0x prefix was refused.
C18_Witness ==
    /\ call.pc = "returned"
    /\ call.event # 0
    /\ TradeEvents[call.event] = EvNoPrefix
    /\ call.result = NoTrade
    /\ call.sent = <<>>

\* C19: the executor is chosen from the event's protocol name alone: the V2
\* executor when the lower-cased name contains a V2 identifier, otherwise the
\* V3 executor when it contains a V3 identifier; for any other name, the
\* empty one included, the attempt returns no trade and submits nothing.
C19_Validated ==
    /\ call.event # 0
    /\ ~C18_Invalid(TradeEvents[call.event], call.direction)
    /\ call.result # Raised

C19_HasV2(name) ==
    \/ Contains(lower(name), <<"v", "2">>)
    \/ Contains(lower(name), <<"u", "n", "i", "s", "w", "a", "p", "_", "v", "2">>)

C19_HasV3(name) ==
    \/ Contains(lower(name), <<"v", "3">>)
    \/ Contains(lower(name), <<"u", "n", "i", "s", "w", "a", "p", "_", "v", "3">>)

C19_ExecutorByName ==
    /\ C19_Validated =>
          LET name == TradeEvents[call.event].ProtocolName
          IN  /\ C19_HasV2(name) => call.executor = "v2"
              /\ (~C19_HasV2(name) /\ C19_HasV3(name)) => call.executor = "v3"
              /\ (~C19_HasV2(name) /\ ~C19_HasV3(name)) =>
                    /\ call.executor = "none"
                    /\ call.pc = "returned"
                    /\ call.result = NoTrade
                    /\ call.sent = <<>>
    /\ lower(<<"P", "a", "n", "_", "V", "2">>) = <<"p", "a", "n", "_", "v", "2">>
    /\ ~C19_HasV2(NameSushi) /\ ~C19_HasV3(NameSushi)
    /\ ~C19_HasV2(<<>>) /\ ~C19_HasV3(<<>>)

\* A name that contains a V3 and a V2 identifier went to the V2 executor and
\* the swap was broadcast.
C19_Witness ==
    /\ call.event # 0
    /\ TradeEvents[call.event] = EvBothNames
    /\ call.executor = "v2"
    /\ SwapBroadcast

\* C20: with a feed-supplied gas price the gas policy returns the smaller of
\* the feed price and the configured maximum, and consults neither the fixed
\* price nor the chain client.
C20_FeedPriceCapped ==
    (call.stream_gas_price_wei.ok /\ call.pc \notin {"idle", "swap"}) =>
        LET capped == IF call.stream_gas_price_wei.v > call.max_gas_price_gwei
                      THEN call.max_gas_price_gwei
                      ELSE call.stream_gas_price_wei.v
        IN  /\ call.gas_price = capped
            /\ call.check_gas_price \in {0, capped}
            /\ call.rpc_queries = 0
            /\ \A k \in DOMAIN call.sent : call.sent[k].gasPrice = capped

\* A feed price above the maximum was capped although a fixed price is
\* configured, and the swap carrying the maximum was broadcast.
C20_Witness ==
    /\ call.stream_gas_price_wei.ok
    /\ call.stream_gas_price_wei.v > call.max_gas_price_gwei
    /\ call.gas_price_gwei.ok
    /\ SwapBroadcast
    /\ call.gas_price = call.max_gas_price_gwei

\* C21: for a trade on an event that carries no transaction-specific gas
\* price, when a fixed operator gas price is configured every transaction of
\* the trade carries the fixed price, not capped against the maximum.
C21_FixedPriceConfigured ==
    /\ call.pc # "idle"
    /\ ~TradeEvents[call.event].TxGasPrice.ok
    /\ call.gas_price_gwei.ok
    /\ call.gas_price_gwei.v # 0

C21_FixedPriceCarried ==
    C21_FixedPriceConfigured =>
        \A k \in DOMAIN call.sent : call.sent[k].gasPrice = call.gas_price_gwei.v

\* C22: the chain client's gas price is queried only when neither a feed
\* price nor a fixed price is available, and a query that fails makes the
\* policy return the hard-coded fallback price: the trade goes on.
C22_QueryFailed == call'.rpc_failures > call.rpc_failures

C22_NetworkPriceLastResort ==
    /\ [](call.rpc_queries > 0 =>
            /\ ~call.stream_gas_price_wei.ok
            /\ ~(call.gas_price_gwei.ok /\ call.gas_price_gwei.v # 0))
    /\ [][C22_QueryFailed =>
            /\ ~call'.raised
            /\ IF call.pc = "swap"
               THEN call'.gas_price = FallbackGasPrice /\ call'.pc # "returned"
               ELSE call'.check_gas_price = FallbackGasPrice]_vars

\* A swap was broadcast at the fallback price after the query failed.
C22_Witness ==
    /\ call.rpc_failures > 0
    /\ call.tx_hash
    /\ call.gas_price = FallbackGasPrice
    /\ call.sent[Len(call.sent)].gasPrice = FallbackGasPrice

\* C23: an exception raised while one feed message is processed (a malformed
\* message, a failure in the direction or slippage resolution, a failure
\* inside execute_trade) is caught inside process_event: the loop goes on,
\* and the positions of the ledger are as they were before the failed event.
C23_FailedEvent ==
    /\ pc = "events"
    /\ \/ last'.kind \in {"strategy_error", "malformed"}
       \/ /\ last'.kind = "strategy"
          /\ last'.called
          /\ last'.result.status = "raised"

C23_WitnessMalformed == last.kind = "malformed" /\ open_positions # <<>>

C23_WitnessRaised ==
    /\ last.kind = "strategy" /\ last.called /\ last.result.status = "raised"
    /\ open_positions # <<>>

\* C24: an exception raised while closing one due position changes only that
\* position (its status becomes close_error), does not leave the tick, and
\* does not keep the other due positions of the tick from being evaluated.
C24_Raised(attempts) == {a \in attempts : a.called /\ a.result = "raised"}

\* positions_to_close with two entries: the close of the first raises (the
\* price of its closing direction is not a number).  should_trade opens no
\* position while another is open, so a tick of the loop finds at most one
\* due position; the closing loop is applied to this ledger directly.
C24_TwoDue ==
    [positions |->
        <<[id |-> 1, open_block |-> 2, direction |-> "BtoA",
           opposite_direction |-> "AtoB", pool_event |-> 2, amount_out |-> 2,
           slippage_bps |-> 10, status |-> "open"],
          [id |-> 2, open_block |-> 3, direction |-> "AtoB",
           opposite_direction |-> "BtoA", pool_event |-> 1, amount_out |-> 2,
           slippage_bps |-> 10, status |-> "open"]>>,
     block |-> 5, unmined |-> 0,
     swaps |-> [id \in 1..MaxTrades |-> 0], attempts |-> {}]

C24_LoopIsolated ==
    /\ \A end \in CloseFrom(1, {1, 2}, C24_TwoDue) :
          \A a \in C24_Raised(end.attempts) :
             /\ StatusOf(end.positions, a.id) = {"close_error"}
             /\ \A id \in {1, 2} \ {a.id} :
                   \E b \in end.attempts :
                      /\ b.id = id
                      /\ StatusOf(end.positions, id) = {b.status_after}
    /\ \E end \in CloseFrom(1, {1, 2}, C24_TwoDue) :
          /\ \E a \in C24_Raised(end.attempts) : a.id = 1
          /\ StatusOf(end.positions, 2) = {"closed"}

C24_CloseErrorIsolated ==
    /\ []C24_LoopIsolated
    /\ [][(last'.kind = "tick" /\ C24_Raised(last'.attempts) # {}) =>
             /\ \A a \in C24_Raised(last'.attempts) :
                   /\ a.status_after = "close_error"
                   /\ StatusOf(open_positions', a.id) = {"close_error"}
             /\ pc' = AfterTick
             /\ \A i \in DOMAIN open_positions :
                   \/ IsDue(open_positions[i], chainBlock)
                   \/ \E j \in DOMAIN open_positions' :
                         open_positions'[j] = open_positions[i]
             /\ \A i \in DOMAIN open_positions :
                   IsDue(open_positions[i], chainBlock) =>
                      \E a \in last'.attempts : a.id = open_positions[i].id
         ]_vars

\* A close raised in a tick: the position is kept as close_error and the
\* loop goes on.
C24_Witness ==
    /\ last.kind = "tick"
    /\ \E a \in C24_Raised(last.attempts) :
          StatusOf(open_positions, a.id) = {"close_error"}
    /\ pc \in {"poll", "process", "events"}

\* C25: direction resolver, ratio path: when MaxAmountIn is present and
\* numeric for both directions at the chosen slippage level and both
\* liquidity amounts are strictly positive, the result is AtoB if and only if
\* maxAmountIn(AtoB) / liquidityA >= maxAmountIn(BtoA) / liquidityB, and BtoA
\* otherwise; equal ratios give AtoB.  (x / a >= y / b is x * b >= y * a for
\* positive a and b.)
C25_Positive(x) == x.ok /\ "str" \notin DOMAIN x /\ x.v > 0

C25_Numeric(x) == x.ok /\ "str" \notin DOMAIN x

C25_RatioCase ==
    /\ calc.fn = "direction"
    /\ calc.pool_event.AtoBPrices # <<>> \/ calc.pool_event.BtoAPrices # <<>>
    /\ C25_Numeric(calc.atob_max)
    /\ C25_Numeric(calc.btoa_max)
    /\ C25_Positive(calc.pool_event.AmountCurrencyA)
    /\ C25_Positive(calc.pool_event.AmountCurrencyB)

C26_NoSlippage(bucket) ==
    \A i \in DOMAIN bucket : ~bucket[i].SlippageBasisPoints.ok

\* What the amounts of LiquidityAmounts stand for; -1: not a number.
C26_Value(amount) ==
    IF "str" \notin DOMAIN amount THEN amount.v
    ELSE CASE amount.str = <<"1", "0">> -> 10
           [] amount.str = <<"0", "x", "1", "0">> -> 16
           [] OTHER -> -1

C26_RawCase ==
    /\ calc.fn = "direction"
    /\ calc.pool_event.AmountCurrencyA.ok
    /\ calc.pool_event.AmountCurrencyB.ok
    /\ calc.pool_event.AtoBPrices # <<>> \/ calc.pool_event.BtoAPrices # <<>>
    /\ \/ /\ ~calc.slippage_bps.ok
          /\ \/ C26_NoSlippage(calc.pool_event.AtoBPrices)
             \/ C26_NoSlippage(calc.pool_event.BtoAPrices)
       \/ ~calc.atob_max.ok
       \/ ~calc.btoa_max.ok

C26_RawComparison ==
    (/\ C26_RawCase
     /\ C26_Value(calc.pool_event.AmountCurrencyA) >= 0
     /\ C26_Value(calc.pool_event.AmountCurrencyB) >= 0) =>
        calc.result = IF C26_Value(calc.pool_event.AmountCurrencyA)
                            >= C26_Value(calc.pool_event.AmountCurrencyB)
                      THEN "AtoB" ELSE "BtoA"

\* "0x10" against "10" gives AtoB: 16 >= 10.
C26_Witness ==
    /\ C26_RawCase
    /\ calc.pool_event.AmountCurrencyA = Text(<<"0", "x", "1", "0">>)
    /\ calc.pool_event.AmountCurrencyB = Text(<<"1", "0">>)
    /\ calc.result = "AtoB"

\* Liquidity {A: 1000, B: 500} gives AtoB on the raw path.
C26_WitnessExample ==
    /\ C26_RawCase
    /\ calc.pool_event.AmountCurrencyA = Some(1000)
    /\ calc.pool_event.AmountCurrencyB = Some(500)
    /\ calc.path = "raw"
    /\ calc.result = "AtoB"

\* C27: the direction resolver returns Unknown if liquidity or the price
\* table is missing, and otherwise returns Unknown only when a liquidity
\* amount is absent or cannot be coerced to a number on the raw-comparison
\* path; in every other case it returns AtoB or BtoA, in particular when both
\* MaxAmountIn values are present but a liquidity amount is zero, which the
\* raw liquidity comparison decides.
C27_Missing ==
    \/ ~calc.pool_event.AmountCurrencyA.ok /\ ~calc.pool_event.AmountCurrencyB.ok
    \/ calc.pool_event.AtoBPrices = <<>> /\ calc.pool_event.BtoAPrices = <<>>

C27_IsNumber(x) == x.ok /\ "str" \notin DOMAIN x

C27_Unusable(amount) ==
    \/ ~amount.ok
    \/ "str" \in DOMAIN amount
       /\ amount.str \notin {<<"1", "0">>, <<"0", "x", "1", "0">>}

C27_ZeroLiquidity ==
    /\ calc.fn = "direction"
    /\ ~C27_Missing
    /\ C27_IsNumber(calc.atob_max)
    /\ C27_IsNumber(calc.btoa_max)
    /\ C27_IsNumber(calc.pool_event.AmountCurrencyA)
    /\ C27_IsNumber(calc.pool_event.AmountCurrencyB)
    /\ \/ calc.pool_event.AmountCurrencyA.v = 0
       \/ calc.pool_event.AmountCurrencyB.v = 0

C27_UnknownOnlyWithoutAmounts ==
    calc.fn = "direction" =>
        /\ calc.result \in {"AtoB", "BtoA", "Unknown"}
        /\ C27_Missing => calc.result = "Unknown"
        /\ (~C27_Missing /\ calc.result = "Unknown") =>
              /\ calc.path = "raw"
              /\ \/ C27_Unusable(calc.pool_event.AmountCurrencyA)
                 \/ C27_Unusable(calc.pool_event.AmountCurrencyB)
        /\ C27_ZeroLiquidity =>
              calc.result = IF calc.pool_event.AmountCurrencyA.v
                                  >= calc.pool_event.AmountCurrencyB.v
                            THEN "AtoB" ELSE "BtoA"

\* Side A holds nothing: BtoA, although AtoB has the larger MaxAmountIn.
C27_Witness ==
    /\ C27_ZeroLiquidity
    /\ calc.pool_event.AmountCurrencyA.v = 0
    /\ calc.pool_event.AmountCurrencyB.v > 0
    /\ calc.atob_max.v > calc.btoa_max.v
    /\ calc.result = "BtoA"

\* Unknown on the raw path because an amount is the string "0x".
C27_WitnessUnknown ==
    /\ calc.fn = "direction"
    /\ ~C27_Missing
    /\ calc.pool_event.AmountCurrencyA = Text(<<"0", "x">>)
    /\ calc.path = "raw"
    /\ calc.result = "Unknown"

\* C28: for a bucket with n >= 1 defined slippage values, in any order,
\* get_median_slippage_bps returns the element at index floor(n / 2)
\* (0-based) of the values sorted ascending: a value v of the bucket with at
\* most floor(n / 2) values below it and more than floor(n / 2) values not
\* above it.  It is a member of the bucket's values and lies between their
\* minimum and maximum.  With no defined value, or an empty bucket, the
\* result is none.
C28_Defined(bucket) ==
    {i \in DOMAIN bucket : bucket[i].SlippageBasisPoints.ok}

C28_Below(bucket, v) ==
    Cardinality({i \in C28_Defined(bucket) : bucket[i].SlippageBasisPoints.v < v})

C28_NotAbove(bucket, v) ==
    Cardinality({i \in C28_Defined(bucket) : bucket[i].SlippageBasisPoints.v <= v})

C28_MedianIsMiddleElement ==
    calc.fn = "median" =>
        LET n == Cardinality(C28_Defined(calc.bucket))
        IN  IF n = 0 THEN calc.result = None
            ELSE /\ calc.result.ok
                 /\ C28_Below(calc.bucket, calc.result.v) <= n \div 2
                 /\ C28_NotAbove(calc.bucket, calc.result.v) > n \div 2
                 /\ \E i \in C28_Defined(calc.bucket) :
                       calc.bucket[i].SlippageBasisPoints.v = calc.result.v
                 /\ \A i \in C28_Defined(calc.bucket) :
                       /\ C28_Below(calc.bucket,
                                    calc.bucket[i].SlippageBasisPoints.v) = 0 =>
                             calc.bucket[i].SlippageBasisPoints.v <= calc.result.v
                       /\ C28_NotAbove(calc.bucket,
                                       calc.bucket[i].SlippageBasisPoints.v) = n =>
                             calc.result.v <= calc.bucket[i].SlippageBasisPoints.v

\* Three values out of order, with an entry without slippage between them.
C28_Witness ==
    /\ calc.fn = "median"
    /\ Len(calc.bucket) = 4
    /\ calc.bucket[1].SlippageBasisPoints = Some(50)
    /\ ~calc.bucket[2].SlippageBasisPoints.ok
    /\ calc.bucket[3].SlippageBasisPoints = Some(10)
    /\ calc.bucket[4].SlippageBasisPoints = Some(30)
    /\ calc.result = Some(30)

\* C29 as stated: for an even number of defined slippage values the result is
\* the lower median, the smaller of the two middle values of the ascending
\* sort (10 for the values {10, 50}).
C29_LowerMedian ==
    calc.fn = "median" =>
        LET n == Cardinality(C28_Defined(calc.bucket))
        IN  (n > 0 /\ n % 2 = 0) =>
               /\ C28_Below(calc.bucket, calc.result.v) <= (n \div 2) - 1
               /\ C28_NotAbove(calc.bucket, calc.result.v) > (n \div 2) - 1

\* C29, amended: for an even number of defined slippage values the result is
\* the upper median, the larger of the two middle values of the ascending
\* sort (50 for the values {10, 50}).
C29_TwoValues ==
    /\ calc.fn = "median"
    /\ Cardinality(C28_Defined(calc.bucket)) = 2
    /\ {calc.bucket[i].SlippageBasisPoints.v : i \in C28_Defined(calc.bucket)}
          = {10, 50}

C29_UpperMedian ==
    calc.fn = "median" =>
        LET n == Cardinality(C28_Defined(calc.bucket))
        IN  /\ (n > 0 /\ n % 2 = 0) =>
                  /\ C28_Below(calc.bucket, calc.result.v) <= n \div 2
                  /\ C28_NotAbove(calc.bucket, calc.result.v) > n \div 2
            /\ C29_TwoValues => calc.result = Some(50)

\* The values {10, 50}, given as 10 then 50: the result is 50.
C29_Witness ==
    /\ C29_TwoValues
    /\ Len(calc.bucket) = 2
    /\ calc.bucket[1].SlippageBasisPoints = Some(10)
    /\ calc.result = Some(50)

\* C30: get_price_for_slippage returns the first entry, in bucket order,
\* whose slippage equals the target whenever the bucket holds one; when none
\* matches it returns the first entry of the bucket, whatever its slippage;
\* it returns none only when the bucket is missing or empty.  (The result is
\* the index of the entry, 0 for none.)
C30_Matches(bucket, target) ==
    {i \in DOMAIN bucket :
        /\ bucket[i].SlippageBasisPoints.ok
        /\ bucket[i].SlippageBasisPoints.v = target}

C30_ExactElseFirst ==
    calc.fn = "price" =>
        /\ calc.result = 0 <=> calc.bucket = <<>>
        /\ C30_Matches(calc.bucket, calc.slippage_bps) # {} =>
              /\ calc.result \in C30_Matches(calc.bucket, calc.slippage_bps)
              /\ \A j \in C30_Matches(calc.bucket, calc.slippage_bps) :
                    calc.result <= j
        /\ (C30_Matches(calc.bucket, calc.slippage_bps) = {}
            /\ calc.bucket # <<>>) => calc.result = 1

\* The target 10 is matched by the third and fourth entry: the third is returned.
C30_Witness ==
    /\ calc.fn = "price"
    /\ calc.slippage_bps = 10
    /\ C30_Matches(calc.bucket, 10) = {3, 4}
    /\ calc.result = 3

\* No entry has the target 70: the first entry, with slippage 50, is returned.
C30_WitnessFallback ==
    /\ calc.fn = "price"
    /\ calc.slippage_bps = 70
    /\ Len(calc.bucket) >= 2
    /\ calc.bucket[1].SlippageBasisPoints = Some(50)
    /\ calc.result = 1

\* C31: get_best_slippage_bps returns the minimum slippage over the entries
\* of the bucket that define one, whatever their order, and none when the
\* bucket is missing, empty or has no defined value; so it is never above
\* the median slippage of the same bucket.
C31_Values(bucket) ==
    {bucket[i].SlippageBasisPoints.v :
        i \in {j \in DOMAIN bucket : bucket[j].SlippageBasisPoints.ok}}

C31_BestIsMinimum ==
    calc.fn = "best" =>
        /\ C31_Values(calc.bucket) = {} => calc.result = None
        /\ C31_Values(calc.bucket) # {} =>
              /\ calc.result.ok
              /\ calc.result.v \in C31_Values(calc.bucket)
              /\ \A v \in C31_Values(calc.bucket) : calc.result.v <= v
        /\ calc.result.ok <=> calc.median.ok
        /\ calc.result.ok => calc.result.v <= calc.median.v

\* The minimum 10 stands last in the bucket, and the median is above it.
C31_Witness ==
    /\ calc.fn = "best"
    /\ Len(calc.bucket) = 3
    /\ calc.bucket[1].SlippageBasisPoints = Some(50)
    /\ calc.bucket[2].SlippageBasisPoints = Some(30)
    /\ calc.bucket[3].SlippageBasisPoints = Some(10)
    /\ calc.result = Some(10)
    /\ calc.median = Some(30)

\* C32: converting an amount to the smallest unit is exact and truncating:
\* the result is the integer floor(amount * 10^decimals), never rounded up;
\* and converting a whole-unit amount to smallest units and back returns
\* the same amount (1.0 at 18 decimals is 10^18, and 10^18 is 1.0).
C32_Shift(digits, n) == Trim(Zeros(n) \o digits)

C32_IsFloor(result, amount, decimals) ==
    LET e    == amount.exp + decimals
        A    == C32_Shift(amount.coef, IF e > 0 THEN e ELSE 0)
        unit == IF e < 0 THEN -e ELSE 0
    IN  /\ ~LessDigits(A, C32_Shift(result, unit))
        /\ LessDigits(A, C32_Shift(AddDigits(result, <<1>>, 0), unit))

C32_Whole(amount) == Normalize(amount).exp >= 0

C32_ExactAndTruncating ==
    calc.fn = "to_smallest" =>
        /\ C32_IsFloor(calc.result, calc.amount, calc.decimals)
        /\ C32_Whole(calc.amount) =>
              /\ calc.back.ok
              /\ calc.back.v = Normalize(calc.amount)

C32_Witness ==
    /\ calc.fn = "to_smallest"
    /\ calc.amount = Dec(<<1, 0>>, -1)
    /\ calc.decimals = 18
    /\ calc.result = Zeros(18) \o <<1>>
    /\ calc.back = [ok |-> TRUE, v |-> [coef |-> <<1>>, exp |-> 0]]

C32_WitnessTruncated ==
    /\ calc.fn = "to_smallest"
    /\ calc.amount = Dec(<<1, 9, 9, 9, 9, 9, 9, 9>>, -7)
    /\ calc.decimals = 6
    /\ calc.result = Reverse(<<1, 9, 9, 9, 9, 9, 9>>)

\* C33: amountOutMin equals floor(amountIn * price * (10000 - slippageBps)
\* / 10000 * 10^decimalsOut) computed exactly.
C33_Exact(amount_in, price, decimals_out, slippage_bps) ==
    IntOf([coef |-> MulDigits(MulDigits(amount_in.coef, price.coef),
                              Digits(10000 - slippage_bps)),
           exp  |-> amount_in.exp + price.exp - 4 + decimals_out])

C33_ExactFloor ==
    calc.fn = "amount_out_min" =>
        calc.result = C33_Exact(calc.amount_in, calc.price,
                                calc.decimals_out, calc.slippage_bps)

\* The example of C33: 100 at price 2.0, 18 decimals, 50 basis points.
C33_Example ==
    /\ calc.fn = "amount_out_min"
    /\ calc.amount_in = Dec(<<1, 0, 0>>, 0)
    /\ calc.price = Dec(<<2, 0>>, -1)
    /\ calc.decimals_out = 18
    /\ calc.slippage_bps = 50
    /\ calc.result = Zeros(18) \o <<9, 9, 1>>

\* The products of 1234567.891234567 by itself and by 0.995 have more than
\* DecimalPrecision digits and are rounded.
C33_Rounded ==
    /\ calc.fn = "amount_out_min"
    /\ calc.amount_in = Dec(<<1, 2, 3, 4, 5, 6, 7, 8, 9, 1, 2, 3, 4, 5, 6, 7>>, -9)
    /\ calc.price = calc.amount_in
    /\ calc.decimals_out = 18
    /\ calc.slippage_bps = 50
    /\ calc.result =
          Reverse(<<1, 5, 1, 6, 5, 3, 7, 0, 8, 8, 6, 7, 7, 0, 2, 8, 8, 2, 5,
                    7, 6, 1, 2, 5, 8, 5, 9, 9, 0, 0, 0>>)
    /\ C33_Exact(calc.amount_in, calc.price, 18, 50) =
          Reverse(<<1, 5, 1, 6, 5, 3, 7, 0, 8, 8, 6, 7, 7, 0, 2, 8, 8, 2, 5,
                    7, 6, 1, 2, 5, 8, 5, 9, 9, 1, 0, 1>>)

\* C34: the direction of an opening trade is the configured fixed direction
\* whenever one is set, and the resolver is then not consulted; otherwise it
\* is the resolver's result, and when the resolver returns Unknown the trade
\* still proceeds, with AtoB.
C34_DirectionOfOpening ==
    (last.kind = "strategy" /\ last.called) =>
        /\ trade_direction # "None" =>
              /\ last.direction = trade_direction
              /\ last.resolver = "not_consulted"
        /\ trade_direction = "None" =>
              /\ last.resolver =
                    get_best_direction_by_liquidity(Events[last.event], None)
              /\ last.resolver \in {"AtoB", "BtoA"} =>
                    last.direction = last.resolver
              /\ last.resolver = "Unknown" => last.direction = "AtoB"

C34_Witness ==
    /\ trade_direction = "None"
    /\ last.kind = "strategy"
    /\ last.called
    /\ last.resolver = "Unknown"
    /\ last.direction = "AtoB"
    /\ last.result.status = "confirmed"

C34_WitnessFixed ==
    /\ trade_direction = "BtoA"
    /\ last.kind = "strategy"
    /\ last.called
    /\ get_best_direction_by_liquidity(Events[last.event], None) = "AtoB"
    /\ last.direction = "BtoA"
    /\ last.result.status = "confirmed"

C34_WitnessResolved ==
    /\ trade_direction = "None"
    /\ last.kind = "strategy"
    /\ last.called
    /\ last.resolver = "BtoA"
    /\ last.direction = "BtoA"

\* C35: for every position the close direction is the opposite of the
\* opening direction, and in every close attempt the asset whose live
\* balance is queried, the input asset of the close swap and the output
\* asset of the opening swap are the same currency of the pool.
C35_SameCurrency(a) ==
    /\ a.direction # a.opened
    /\ {a.direction, a.opened} = {"AtoB", "BtoA"}
    /\ a.token_to_swap = CurrencyIn(a.direction)
    /\ a.token_to_swap = CurrencyOut(a.opened)
    /\ get_token_address(CurrencyAddress(Events[a.event], a.token_to_swap))
          = TokenIn(Events[a.event], a.direction)
    /\ TokenIn(Events[a.event], a.direction)
          = TokenOut(Events[a.event], a.opened)

C35_CloseSwapsBackWhatWasReceived ==
    /\ \A i \in DOMAIN open_positions :
          /\ open_positions[i].opposite_direction # open_positions[i].direction
          /\ {open_positions[i].opposite_direction, open_positions[i].direction}
                = {"AtoB", "BtoA"}
    /\ \A a \in last.attempts : C35_SameCurrency(a)

C35_Witness ==
    /\ last.kind = "tick"
    /\ \E a \in last.attempts :
          /\ a.called
          /\ a.result = "confirmed"
          /\ a.opened = "AtoB"
          /\ a.direction = "BtoA"
          /\ a.token_to_swap = "CurrencyB"
          /\ Events[a.event].AddressB = "TOK"

C35_WitnessBtoA ==
    /\ last.kind = "tick"
    /\ \E a \in last.attempts :
          /\ a.called
          /\ a.opened = "BtoA"
          /\ a.direction = "AtoB"
          /\ a.token_to_swap = "CurrencyA"
          /\ Events[a.event].AddressA = "WETH"

\* C36: the live balance used to resolve the close amount is the balance of
\* the asset held, measured as the reconciler measured the opening trade's
\* received amount (the native balance when the held asset is the wrapped
\* native asset, the token balance otherwise); so after a confirmed opening
\* whose output was credited to the native balance, with no other wallet
\* activity, the close resolves a positive amount.
C36_LiveBalanceOfHeldAsset ==
    calc.fn = "held" =>
        /\ calc.close_reads = calc.reconciler_reads
        /\ calc.credited = "native" =>
              /\ calc.amount_out.ok
              /\ calc.amount_out.v > 0

\* The output of a V2 swap into the wrapped native asset is paid in the
\* native asset; the wallet holds none of the wrapped token.
C36_NativeHeld ==
    /\ calc.fn = "held"
    /\ calc.executor = "v2"
    /\ calc.token_out_address = "WETH"
    /\ calc.credited = "native"
    /\ calc.wallet.WETH = 0
    /\ calc.received = 3
    /\ calc.after.native = calc.wallet.native + 3 - 1
    /\ calc.reconciler_reads = "native"
    /\ calc.stored = 3
    /\ calc.close_reads = "WETH"
    /\ calc.actual_balance = Some(0)
    /\ calc.amount_out = None

\* For any other token the two measures agree and the close resolves the
\* amount received.
C36_TokenHeld ==
    (calc.fn = "held" /\ calc.token_out_address = "TOK") =>
        /\ calc.close_reads = calc.reconciler_reads
        /\ calc.stored = calc.received
        /\ calc.amount_out = Some(calc.received)

\* C37: with no fixed gas price configured, every gas price the policy
\* returns (from the feed, from the network, or the fallback used when the
\* network query fails) is at most the configured maximum.
C37_PolicyBelowMaximum ==
    ~call.gas_price_gwei.ok =>
        /\ call.gas_price <= call.max_gas_price_gwei
        /\ call.check_gas_price <= call.max_gas_price_gwei
        /\ \A i \in DOMAIN call.sent :
              call.sent[i].gasPrice <= call.max_gas_price_gwei

\* A swap was broadcast at the fallback price, above the maximum of 20.
C37_FallbackAboveMaximum ==
    /\ ~call.gas_price_gwei.ok
    /\ call.max_gas_price_gwei = 20
    /\ call.rpc_failures > 0
    /\ call.gas_price = FallbackGasPrice
    /\ call.tx_hash
    /\ call.sent[Len(call.sent)].gasPrice = FallbackGasPrice

\* The prices of the feed tier and of the network tier are capped.
C37_FeedAndNetworkCapped ==
    (~call.gas_price_gwei.ok /\ call.rpc_failures = 0) =>
        /\ call.gas_price <= call.max_gas_price_gwei
        /\ call.check_gas_price <= call.max_gas_price_gwei

\* C38: an opening trade uses the median slippage of the chosen direction's
\* bucket when there is one and the configured default otherwise; whenever
\* the median exists, the price entry used has SlippageBasisPoints equal to
\* that tolerance: the lookup's fallback to the first entry is not taken.
C38_OpeningUsesMedianEntry ==
    calc.fn = "opening" =>
        /\ calc.median.ok =>
              /\ calc.slippage_bps = calc.median.v
              /\ calc.price_entry \in DOMAIN calc.bucket
              /\ calc.bucket[calc.price_entry].SlippageBasisPoints
                    = Some(calc.slippage_bps)
              /\ \A i \in 1..(calc.price_entry - 1) :
                    calc.bucket[i].SlippageBasisPoints # Some(calc.slippage_bps)
        /\ ~calc.median.ok => calc.slippage_bps = DefaultSlippageBps

\* The median 30 of the slippages 50, 10, 30 is the third entry.
C38_Witness ==
    /\ calc.fn = "opening"
    /\ Len(calc.bucket) = 3
    /\ calc.bucket[1].SlippageBasisPoints = Some(50)
    /\ calc.bucket[2].SlippageBasisPoints = Some(10)
    /\ calc.bucket[3].SlippageBasisPoints = Some(30)
    /\ calc.median = Some(30)
    /\ calc.slippage_bps = 30
    /\ calc.price_entry = 3

\* No entry defines a slippage: the default, and the first entry.
C38_WitnessDefault ==
    /\ calc.fn = "opening"
    /\ Len(calc.bucket) = 2
    /\ calc.median = None
    /\ calc.slippage_bps = DefaultSlippageBps
    /\ calc.price_entry = 1

\* C39: a close trade is computed only from what the position stored at
\* opening time (the originating event with its pool, price table, protocol
\* name and feed gas price, the opposite direction and the stored slippage):
\* feed events received later do not change it, and neither a later event
\* nor a close attempt modifies the position's stored event, direction or
\* recorded amount.
C39_Stored(position) ==
    [id |-> position.id, open_block |-> position.open_block,
     pool_event |-> position.pool_event, direction |-> position.direction,
     opposite_direction |-> position.opposite_direction,
     amount_out |-> position.amount_out,
     slippage_bps |-> position.slippage_bps]

C39_Step ==
    /\ \A a \in last'.attempts :
          \E i \in DOMAIN open_positions :
             /\ open_positions[i].id = a.id
             /\ a.event = open_positions[i].pool_event
             /\ a.direction = open_positions[i].opposite_direction
             /\ a.slippage_bps = open_positions[i].slippage_bps
             /\ a.stored = open_positions[i].amount_out
    /\ \A j \in DOMAIN open_positions' :
          IF \E i \in DOMAIN open_positions :
                open_positions[i].id = open_positions'[j].id
          THEN \E i \in DOMAIN open_positions :
                  C39_Stored(open_positions[i]) = C39_Stored(open_positions'[j])
          ELSE /\ last'.kind = "strategy"
               /\ open_positions'[j].pool_event = last'.event
               /\ open_positions'[j].direction = last'.direction
               /\ open_positions'[j].slippage_bps = last'.result.slippage_bps

C39_CloseFromStoredData == [][C39_Step]_vars

\* A position stored from one event is closed by a swap computed from that
\* event.
C39_Witness ==
    /\ last.kind = "tick"
    /\ \E a \in last.attempts :
          /\ a.called
          /\ a.result = "confirmed"
          /\ a.status_after = "closed"
          /\ a.event = 1
          /\ a.opened = "AtoB"
          /\ a.direction = "BtoA"
          /\ a.slippage_bps = 50

\* While the position is open, an event of another pool and protocol has
\* been received; the position still holds the event it was opened on.
C39_WitnessLaterEvent ==
    /\ last.kind = "strategy"
    /\ last.event = 2
    /\ ~last.called
    /\ \E i \in DOMAIN open_positions :
          /\ open_positions[i].status = "open"
          /\ open_positions[i].pool_event = 1
          /\ open_positions[i].direction = "AtoB"

\* C40: positions in close_failed or close_error never block a new opening
\* trade, and closing trades neither reset the rate-limit timer nor change
\* the trade counters: the opening gate depends only on the number of open
\* positions and on the time of the last opening attempt (and on the event),
\* so a new position can be opened while failed positions are retained.
C40_Gate(e) ==
    /\ enabled
    /\ Cardinality({i \in DOMAIN open_positions :
                       open_positions[i].status = "open"}) = 0
    /\ now - last_trade_time >= MinTradeInterval
    /\ Events[e].AtoBPrices # <<>> \/ Events[e].BtoAPrices # <<>>
    /\ Truthy(Events[e].AmountCurrencyA)
    /\ Truthy(Events[e].AmountCurrencyB)

C40_Step ==
    /\ last'.kind = "tick" =>
          UNCHANGED <<last_trade_time, total_trades, successful_trades,
                      failed_trades>>
    /\ last'.kind = "strategy" => (last'.called <=> C40_Gate(last'.event))
    /\ last_trade_time' # last_trade_time =>
          /\ last'.kind = "strategy"
          /\ last'.called
          /\ last_trade_time' = now
    /\ total_trades' # total_trades =>
          /\ last'.kind = "strategy"
          /\ last'.called

C40_FailedPositionsDoNotBlock == [][C40_Step]_vars

\* A position is opened while a failed one is retained.
C40_Witness ==
    /\ last.kind = "strategy"
    /\ last.called
    /\ last.result.status = "confirmed"
    /\ \E i, j \in DOMAIN open_positions :
          /\ i < j
          /\ open_positions[i].status = "close_failed"
          /\ open_positions[j].status = "open"
          /\ open_positions[j].id = total_trades

C40_WitnessCloseError ==
    /\ last.kind = "strategy"
    /\ last.called
    /\ \E i \in DOMAIN open_positions :
          open_positions[i].status = "close_error"

\* A close swap was made and the timer and the counters are as they were.
C40_WitnessClose ==
    /\ last.kind = "tick"
    /\ \E a \in last.attempts : a.called /\ a.broadcast
    /\ total_trades = 1
    /\ last_trade_time < now

====
